---- MODULE Spec2Model ----
\* flowmaster/traceflow: the Trace span-lifecycle state machine, the carrier
\* adapters and the propagation gateway, modelled over an OpenTelemetry engine
\* (tracer provider + W3C TraceContext/Baggage propagator as installed by Init).
EXTENDS Integers, Sequences, FiniteSets, TLC

VARIABLES
    t,          \* the Trace object under operation (struct Trace)
    spans,      \* the engine: every span tracer.Start has created, in creation order
    wire,       \* the headers that cross the boundary: the transport and its container
    hist,       \* the calls made so far, with their inputs
    lastOp,     \* the operation of the last step
    traceNo,    \* how many Trace objects have been constructed
    fault,      \* a runtime panic has happened (the goroutine is gone)
    rx,         \* the last extraction whose result the caller kept: contexts given and obtained
    sent,       \* the last injection: the span context injected, and whether the headers were empty
    invoked,    \* the contexts the gRPC invoker was called with, in call order
    procs       \* the goroutines that decorate concurrently: position, value read, own Trace

vars == <<t, spans, wire, hist, lastOp, traceNo, fault, rx, sent, invoked, procs>>

----------------------------------------------------------------------------
\* Bounds of the model.

\* Spans the engine creates in a run, calls of the other methods and functions
\* made in a run, Trace objects constructed in a run.
MaxSpans == 2
MaxCalls == 2
MaxTraces == 2

----------------------------------------------------------------------------
\* Values.

\* trace.SpanContext: ids are numbers, 0 is the all-zero (invalid) id.
SpanContextOf(tid, sid, fl, ts, rem) ==
    [traceID |-> tid, spanID |-> sid, flags |-> fl, ts |-> ts, remote |-> rem]

NoSC == SpanContextOf(0, 0, 0, 0, FALSE)

IsValid(sc) == sc.traceID # 0 /\ sc.spanID # 0

\* SpanID.String(): 16 lower-case hex digits (ids of the model are one digit).
SpanIDString(id) == "000000000000000" \o ToString(id)

\* TraceID.String(): 32 lower-case hex digits.
TraceIDString(id) == "0000000000000000000000000000000" \o ToString(id)

\* gRPC metadata attached to a context: absent, or a map key -> list of values.
NoMD == [ok |-> FALSE, md |-> <<>>]

\* context.Context as far as this package reads it: nil or not, the span in
\* it, its baggage (0 is none) and its incoming / outgoing gRPC metadata.
Ctx(sc, bag) == [isNil |-> FALSE, sc |-> sc, bag |-> bag, inMD |-> NoMD, outMD |-> NoMD]

Background == Ctx(NoSC, 0)

NilCtx == [isNil |-> TRUE, sc |-> NoSC, bag |-> 0, inMD |-> NoMD, outMD |-> NoMD]

\* trace.SpanFromContext(ctx).SpanContext(): a nil context holds no span.
SpanContextFromContext(ctx) == IF ctx.isNil THEN NoSC ELSE ctx.sc

\* attribute.KeyValue
KeyValue(k, ty, s, n) == [key |-> k, type |-> ty, str |-> s, num |-> n]

AttrString(k, v) == KeyValue(k, "STRING", v, 0)
AttrInt64(k, v) == KeyValue(k, "INT64", "", v)
AttrFloat64(k, v) == KeyValue(k, "FLOAT64", "", v)
AttrBool(k, v) == KeyValue(k, "BOOL", "", IF v THEN 1 ELSE 0)

\* Attribute{otelAttr}: the wrapper AddString / AddInt build.
AddString(k, v) == [otelAttr |-> AttrString(k, v)]
AddInt(k, v) == [otelAttr |-> AttrInt64(k, v)]

\* A dynamically typed value (interface{}) handed to AddAttributeIf.
Dyn(ty, s, n) == [type |-> ty, str |-> s, num |-> n]

----------------------------------------------------------------------------
\* Containers and carrier adapters.  A header value is a tuple of numbers
\* standing for the text; the empty tuple is the empty string.

EmptyMap == [k \in {} |-> <<>>]

MapSet(m, k, v) == [x \in (DOMAIN m) \cup {k} |-> IF x = k THEN v ELSE m[x]]

\* textproto.CanonicalMIMEHeaderKey on the keys the model uses.
CanonicalMIMEHeaderKey(k) ==
    CASE k = "traceparent" -> "Traceparent"
      [] k = "tracestate" -> "Tracestate"
      [] k = "baggage" -> "Baggage"
      [] k = "x-user" -> "X-User"
      [] OTHER -> k

\* strings.ToLower on the keys the model uses.
ToLower(k) ==
    CASE k = "Traceparent" -> "traceparent"
      [] k = "Tracestate" -> "tracestate"
      [] k = "Baggage" -> "baggage"
      [] k = "X-User" -> "x-user"
      [] OTHER -> k

\* propagation.HeaderCarrier over an http.Header (and over a nats.Header, which
\* PropagateNats / ExtractNats convert to it): http.Header.Get / Set.
HeaderCarrierGet(h, key) ==
    LET ck == CanonicalMIMEHeaderKey(key)
    IN  IF ck \in DOMAIN h /\ Len(h[ck]) > 0 THEN h[ck][1] ELSE <<>>

HeaderCarrierSet(h, key, value) == MapSet(h, CanonicalMIMEHeaderKey(key), <<value>>)

\* nats.Header's own Get / Set, to which natscarrier.NATSHeaderCarrier
\* delegates: the key is used exactly as given.  Get returns the first value
\* of a key that is present and panics when the key holds an empty list
\* (NATSHeaderGetPanics); the value below is the one of a Get that returns.
NATSHeaderGetPanics(h, key) == key \in DOMAIN h /\ h[key] = <<>>

NATSHeaderGet(h, key) ==
    IF key \in DOMAIN h /\ ~NATSHeaderGetPanics(h, key) THEN h[key][1] ELSE <<>>

NATSHeaderSet(h, key, value) == MapSet(h, key, <<value>>)

\* propagation.MapCarrier over the map[string]string the gRPC methods build.
MapCarrierGet(m, key) == IF key \in DOMAIN m THEN m[key] ELSE <<>>

MapCarrierSet(m, key, value) == MapSet(m, key, value)

\* kafkacarrier.KafkaHeadersCarrier over *[]kafka.Header.
KafkaHeader(k, v) == [Key |-> k, Value |-> v]

RECURSIVE KafkaFind(_, _, _)
KafkaFind(hs, key, i) ==
    IF i > Len(hs) THEN 0
    ELSE IF hs[i].Key = key THEN i
    ELSE KafkaFind(hs, key, i + 1)

KafkaGet(hs, key) ==
    LET i == KafkaFind(hs, key, 1)
    IN  IF i = 0 THEN <<>> ELSE hs[i].Value

\* A Set that appends without removing the header there is.
KafkaSetAppend(hs, key, value) == Append(hs, KafkaHeader(key, value))

\* Set: the first header of the key is removed, the new one appended.
KafkaSet(hs, key, value) ==
    LET i == KafkaFind(hs, key, 1)
        rest == IF i = 0 THEN hs
                ELSE SubSeq(hs, 1, i - 1) \o SubSeq(hs, i + 1, Len(hs))
    IN  Append(rest, KafkaHeader(key, value))

KafkaKeys(hs) == [i \in 1..Len(hs) |-> hs[i].Key]

\* rabbitmqcarrier.AMQPTableCarrier over an amqp.Table (map[string]interface{}):
\* a value is a string or something else.
AMQPString(v) == [isStr |-> TRUE, v |-> v]
AMQPOther(v) == [isStr |-> FALSE, v |-> v]

\* A Get that returns the value without the string type check.
AMQPGetAny(tbl, key) == IF key \in DOMAIN tbl THEN tbl[key].v ELSE <<>>

AMQPGet(tbl, key) ==
    IF key \in DOMAIN tbl /\ tbl[key].isStr THEN tbl[key].v ELSE <<>>

\* A Set that stores the value as bytes, not as a string.
AMQPSetBytes(tbl, key, value) == MapSet(tbl, key, AMQPOther(value))

AMQPSet(tbl, key, value) == MapSet(tbl, key, AMQPString(value))

AMQPKeys(tbl) == DOMAIN tbl

\* A propagation.TextMapCarrier: the adapter in use and its container.
Carrier(kind, h) == [kind |-> kind, h |-> h]

CarrierGet(c, key) ==
    CASE c.kind = "header" -> HeaderCarrierGet(c.h, key)
      [] c.kind = "map" -> MapCarrierGet(c.h, key)
      [] c.kind = "kafka" -> KafkaGet(c.h, key)
      [] c.kind = "amqp" -> AMQPGet(c.h, key)
      [] c.kind = "natsheader" -> NATSHeaderGet(c.h, key)

CarrierSet(c, key, value) ==
    CASE c.kind = "header" -> Carrier("header", HeaderCarrierSet(c.h, key, value))
      [] c.kind = "map" -> Carrier("map", MapCarrierSet(c.h, key, value))
      [] c.kind = "kafka" -> Carrier("kafka", KafkaSet(c.h, key, value))
      [] c.kind = "amqp" -> Carrier("amqp", AMQPSet(c.h, key, value))
      [] c.kind = "natsheader" -> Carrier("natsheader", NATSHeaderSet(c.h, key, value))

----------------------------------------------------------------------------
\* The process-wide propagator Init installs: TraceContext, then Baggage.

\* Ids are hex digits 1..MaxID; 0 is the all-zero id.
MaxID == 9

\* "00-<trace id>-<span id>-<flags>", the flags reduced to the sampled bit.
Traceparent(sc) == <<0, sc.traceID, sc.spanID, sc.flags % 2>>

TraceContextInject(ctx, c) ==
    LET sc == SpanContextFromContext(ctx)
        c1 == IF sc.ts # 0 THEN CarrierSet(c, "tracestate", <<sc.ts>>) ELSE c
    IN  IF ~IsValid(sc) THEN c ELSE CarrierSet(c1, "traceparent", Traceparent(sc))

\* The highest traceparent version the propagator reads (ff is invalid).
maxVersion == 254

\* trace.ParseTraceState as far as extract uses it: the tracestate of the
\* header value, the empty one (0) when the value is absent or does not parse.
ParseTraceState(s) == IF Len(s) = 1 /\ s[1] \in 1..MaxID THEN s[1] ELSE 0

\* TraceContext.extract: the span context the carrier holds, NoSC when the
\* traceparent is missing or malformed.  Versions up to maxVersion are read;
\* version 00 allows nothing after the flags and no flag above 02.  The flags
\* are reduced to the sampled bit, and a tracestate that does not parse is
\* dropped without affecting the traceparent.
TraceContextParse(c) ==
    LET h == CarrierGet(c, "traceparent")
        s == CarrierGet(c, "tracestate")
        hOK == /\ Len(h) >= 4
               /\ h[1] \in 0..maxVersion
               /\ h[2] \in 1..MaxID
               /\ h[3] \in 1..MaxID
               /\ h[4] \in 0..255
               /\ (h[1] = 0 => (Len(h) = 4 /\ h[4] <= 2))
    IN  IF hOK
        THEN SpanContextOf(h[2], h[3], h[4] % 2, ParseTraceState(s), TRUE)
        ELSE NoSC

TraceContextExtract(ctx, c) ==
    LET sc == TraceContextParse(c)
    IN  IF ~IsValid(sc) THEN ctx ELSE [ctx EXCEPT !.sc = sc]

BaggageInject(ctx, c) ==
    IF ctx.bag # 0 THEN CarrierSet(c, "baggage", <<ctx.bag>>) ELSE c

BaggageExtract(ctx, c) ==
    LET b == CarrierGet(c, "baggage")
    IN  IF b = <<>> THEN ctx
        ELSE IF Len(b) = 1 /\ b[1] \in 1..MaxID THEN [ctx EXCEPT !.bag = b[1]]
        ELSE ctx

\* propagator.Inject(ctx, carrier): the carrier afterwards.
Inject(ctx, c) == BaggageInject(ctx, TraceContextInject(ctx, c))

\* propagator.Extract(ctx, carrier): the context it returns.
Extract(ctx, c) == BaggageExtract(TraceContextExtract(ctx, c), c)

----------------------------------------------------------------------------
\* The engine: trace.SpanStartOption values and tracer.Start of the SDK
\* provider Init installs (AlwaysSample).

WithAttributes(as) == [opt |-> "WithAttributes", attrs |-> as, links |-> <<>>, kind |-> ""]
WithLinks(ls) == [opt |-> "WithLinks", attrs |-> <<>>, links |-> ls, kind |-> ""]
WithSpanKind(k) == [opt |-> "WithSpanKind", attrs |-> <<>>, links |-> <<>>, kind |-> k]
NilOption == [opt |-> "nil", attrs |-> <<>>, links |-> <<>>, kind |-> ""]

\* trace.NewSpanStartConfig: the options applied in order.
RECURSIVE SpanStartConfig(_, _)
SpanStartConfig(options, cfg) ==
    IF options = <<>> THEN cfg
    ELSE LET o == Head(options)
             c == CASE o.opt = "WithAttributes" -> [cfg EXCEPT !.attrs = @ \o o.attrs]
                    [] o.opt = "WithLinks" -> [cfg EXCEPT !.links = @ \o o.links]
                    [] o.opt = "WithSpanKind" -> [cfg EXCEPT !.kind = o.kind]
                    [] OTHER -> [cfg EXCEPT !.panic = TRUE]
         IN  SpanStartConfig(Tail(options), c)

EmptyConfig == [attrs |-> <<>>, links |-> <<>>, kind |-> "internal", panic |-> FALSE]

\* The span tracer.Start creates: it continues the trace of the span context
\* in ctx when that one has a trace id (the span id is not looked at), else it
\* opens a new trace; the sampler hands on the tracestate of the parent, and
\* the flags are those of the parent with the sampled bit set.
NewSpan(n, ctx, name, cfg) ==
    LET parent == SpanContextFromContext(ctx)
    IN  [name |-> name,
         attrs |-> cfg.attrs,
         links |-> cfg.links,
         kind |-> cfg.kind,
         parent |-> parent,
         sc |-> SpanContextOf(IF parent.traceID # 0 THEN parent.traceID ELSE n, n,
                              IF parent.flags % 2 = 1 THEN parent.flags ELSE parent.flags + 1,
                              parent.ts, FALSE),
         ended |-> FALSE,
         ends |-> 0,
         status |-> [code |-> "Unset", description |-> ""],
         events |-> <<>>]

\* span.End(): ends the span; a second End of the same span is received and
\* ignored (ends counts the calls received).
SpanEnd(sp) == [sp EXCEPT !.ended = TRUE, !.ends = @ + 1]

\* codes.Code: Unset < Error < Ok.
CodeRank(code) == CASE code = "Unset" -> 0 [] code = "Error" -> 1 [] code = "Ok" -> 2

\* A SetStatus that overwrites whatever status the span has.
SpanSetStatusOverwrite(sp, code, description) ==
    IF sp.ended THEN sp
    ELSE [sp EXCEPT !.status = [code |-> code,
                                description |-> IF code = "Error" THEN description ELSE ""]]

\* span.SetStatus(code, description): ignored once the span has ended and
\* when the span already has a status of higher rank; the description is kept
\* for Error only.
SpanSetStatus(sp, code, description) ==
    IF sp.ended \/ CodeRank(sp.status.code) > CodeRank(code) THEN sp
    ELSE [sp EXCEPT !.status = [code |-> code,
                                description |-> IF code = "Error" THEN description ELSE ""]]

\* An error value: nil, or an error with a message.
NilErr == [isNil |-> TRUE, msg |-> ""]
ErrorsNew(msg) == [isNil |-> FALSE, msg |-> msg]

\* span.RecordError(err): one exception event on a recording span; nothing for
\* a nil error or an ended span.  The status is left alone.
SpanRecordError(sp, err) ==
    IF sp.ended \/ err.isNil THEN sp
    ELSE [sp EXCEPT !.events = Append(@, [name |-> "exception", message |-> err.msg])]

----------------------------------------------------------------------------
\* The Trace object.

\* &SpanKind{trace, option}
SpanKindOf(owner, option) == [null |-> FALSE, trace |-> owner, option |-> option]

\* Option values (type Option func(*Trace)).
OptWithAttributes(as) == [o |-> "WithAttributes", attrs |-> as, keys |-> <<>>]
OptWithEnVars(ks) == [o |-> "WithEnVars", attrs |-> <<>>, keys |-> ks]
OptWithConcurrencyInfo == [o |-> "WithConcurrencyInfo", attrs |-> <<>>, keys |-> <<>>]
OptWithHTTPContext == [o |-> "WithHTTPContext", attrs |-> <<>>, keys |-> <<>>]
OptWithSystemInfo == [o |-> "WithSystemInfo", attrs |-> <<>>, keys |-> <<>>]

\* The process environment os.LookupEnv reads: one variable set, one set to
\* the empty string, every other one unset.
Env == [k \in {"SERVICE_NAME", "EMPTY"} |-> IF k = "SERVICE_NAME" THEN "svc1" ELSE ""]

\* runtime.NumGoroutine() at the time of the call.
NumGoroutine == 2

RECURSIVE OtelAttrs(_)
OtelAttrs(as) == IF as = <<>> THEN <<>> ELSE <<Head(as).otelAttr>> \o OtelAttrs(Tail(as))

RECURSIVE EnVarAttrs(_)
EnVarAttrs(ks) ==
    IF ks = <<>> THEN <<>>
    ELSE (IF Head(ks) \in DOMAIN Env /\ Env[Head(ks)] # ""
          THEN <<AttrString(Head(ks), Env[Head(ks)])>> ELSE <<>>) \o EnVarAttrs(Tail(ks))

\* An addition that puts the new attributes in front of the pending ones.
PrependAttrs(attrs, as) == OtelAttrs(as) \o attrs

\* for _, attr := range attrs { t.attrs = append(t.attrs, attr.otelAttr) }
AppendAttrs(attrs, as) == attrs \o OtelAttrs(as)

\* Integer widths, scaled: int64, uint64 and uint (a 64-bit build) have
\* Int64Bits bits, uint32 half as many.
Int64Bits == 16

MaxInt64 == 2^(Int64Bits - 1) - 1
MaxUint64 == 2^Int64Bits - 1
MaxUint32 == 2^(Int64Bits \div 2) - 1

\* The conversion int64(u) of an unsigned u: the same bits, read as signed.
Int64(u) ==
    LET bits == u % (2^Int64Bits)
    IN  IF bits > MaxInt64 THEN bits - (2^Int64Bits) ELSE bits

\* safeUint64ToInt64(u): math.MaxInt64 for a value above it.
safeUint64ToInt64(u) == IF u > MaxInt64 THEN MaxInt64 ELSE u

\* What the process reads from its runtime and its host: runtime.NumCPU,
\* runtime.GOARCH, runtime.MemStats, syscall.Statfs("/"), os.Getpid,
\* exec.LookPath(os.Args[0]) and /proc/self/cgroup.
Runtime ==
    [NumCPU |-> 4, GOARCH |-> "amd64",
     TotalAlloc |-> 9, Sys |-> 12, HeapAlloc |-> 5, HeapIdle |-> 3,
     StatfsOK |-> TRUE, Blocks |-> 100, Bsize |-> 64, Bfree |-> 50,
     Pid |-> 7, Command |-> "/bin/app", ContainerID |-> "unknown"]

\* os.Getenv(key): "" for a variable that is not set.
Getenv(key) == IF key \in DOMAIN Env THEN Env[key] ELSE ""

\* reflect.TypeOf(err).String() and err.Error() of an error built by errors.New.
ErrTypeString(err) == "*errors.errorString"

\* The decorator methods: each appends attributes of its own to t.attrs.
AddJSON(tr, payload) == [tr EXCEPT !.attrs = Append(@, AttrString("payload", payload))]

AddException(tr, err, stackTrace) ==
    [tr EXCEPT !.attrs = @ \o <<AttrString("exception.type", ErrTypeString(err)),
                                AttrString("exception.message", err.msg),
                                AttrString("exception.stacktrace", stackTrace)>>]

AddError(tr, err) ==
    [tr EXCEPT !.attrs = @ \o <<AttrString("error.type", ErrTypeString(err)),
                                AttrString("error.message", err.msg)>>]

AddHTTPRequest(tr, method, url, userAgent, remoteAddr) ==
    [tr EXCEPT !.attrs = @ \o <<AttrString("http.method", method),
                                AttrString("http.url", url),
                                AttrString("http.user_agent", userAgent),
                                AttrString("http.client_ip", remoteAddr)>>]

AddHTTPResponse(tr, statusCode, contentLength) ==
    [tr EXCEPT !.attrs = @ \o <<AttrInt64("http.status_code", statusCode),
                                AttrInt64("http.content_length", contentLength)>>]

\* AddHTTPHeaders ranges over the header map, whose iteration order Go leaves
\* open (order: the keys in the order met), and over the values of each key.
RECURSIVE HeaderAttrs(_, _)
HeaderAttrs(headers, order) ==
    IF order = <<>> THEN <<>>
    ELSE LET key == Head(order)
         IN  [i \in 1..Len(headers[key]) |-> AttrString("http.header." \o key, headers[key][i])]
               \o HeaderAttrs(headers, Tail(order))

AddHTTPHeaders(tr, headers, order) == [tr EXCEPT !.attrs = @ \o HeaderAttrs(headers, order)]

AddEvent(tr, eventName, timestamp) ==
    [tr EXCEPT !.attrs = @ \o <<AttrString("event.name", eventName),
                                AttrString("event.timestamp", timestamp)>>]

AddTaskInfo(tr, taskID, taskName, retries) ==
    [tr EXCEPT !.attrs = @ \o <<AttrString("task.id", taskID),
                                AttrString("task.name", taskName),
                                AttrInt64("task.retries", retries)>>]

AddUser(tr, userID, username) ==
    [tr EXCEPT !.attrs = @ \o <<AttrString("user.id", userID),
                                AttrString("user.username", username)>>]

AddCustomMetric(tr, metricName, value) ==
    [tr EXCEPT !.attrs = @ \o <<AttrString("metric.name", metricName),
                                AttrFloat64("metric.value", value)>>]

AddSystemInfo(tr, hostname, ipAddress, environment) ==
    [tr EXCEPT !.attrs = @ \o <<AttrString("system.hostname", hostname),
                                AttrString("system.ip_address", ipAddress),
                                AttrString("system.environment", environment)>>]

AddCPUInfo(tr) ==
    [tr EXCEPT !.attrs = @ \o <<AttrInt64("cpu.count", Runtime.NumCPU),
                                AttrString("cpu.architecture", Runtime.GOARCH)>>]

AddMemoryInfo(tr) ==
    [tr EXCEPT !.attrs = @ \o
        <<AttrInt64("memory.total_alloc", safeUint64ToInt64(Runtime.TotalAlloc)),
          AttrInt64("memory.sys", safeUint64ToInt64(Runtime.Sys)),
          AttrInt64("memory.heap_alloc", safeUint64ToInt64(Runtime.HeapAlloc)),
          AttrInt64("memory.heap_idle", safeUint64ToInt64(Runtime.HeapIdle))>>]

\* Nothing is added when Statfs fails; the products are uint64 products.
AddDiskInfo(tr) ==
    IF ~Runtime.StatfsOK THEN tr
    ELSE LET totalDiskSpace == (Runtime.Blocks * Runtime.Bsize) % (2^Int64Bits)
             freeDiskSpace == (Runtime.Bfree * Runtime.Bsize) % (2^Int64Bits)
         IN  [tr EXCEPT !.attrs = @ \o
                 <<AttrInt64("disk.total", safeUint64ToInt64(totalDiskSpace)),
                   AttrInt64("disk.free", safeUint64ToInt64(freeDiskSpace))>>]

AddProcessInfo(tr) ==
    [tr EXCEPT !.attrs = @ \o <<AttrInt64("process.id", Runtime.Pid),
                                AttrString("process.command", Runtime.Command)>>]

AddContainerInfo(tr) ==
    LET image == IF Getenv("CONTAINER_IMAGE") = "" THEN "unknown" ELSE Getenv("CONTAINER_IMAGE")
    IN  [tr EXCEPT !.attrs = @ \o <<AttrString("container.id", Runtime.ContainerID),
                                    AttrString("container.image", image)>>]

AddKubernetesInfo(tr, podName, namespace) ==
    [tr EXCEPT !.attrs = @ \o <<AttrString("kubernetes.pod_name", podName),
                                AttrString("kubernetes.namespace", namespace)>>]

AddNetworkInfo(tr, protocol, latencyMs) ==
    [tr EXCEPT !.attrs = @ \o <<AttrString("network.protocol", protocol),
                                AttrInt64("network.latency_ms", latencyMs)>>]

AddDBQuery(tr, query, dbType) ==
    [tr EXCEPT !.attrs = @ \o <<AttrString("db.query", query), AttrString("db.system", dbType)>>]

AddDBInfo(tr, dbName, dbVersion) ==
    [tr EXCEPT !.attrs = @ \o <<AttrString("db.name", dbName), AttrString("db.version", dbVersion)>>]

AddDBConnectionInfo(tr, connectionString, connectionCount) ==
    [tr EXCEPT !.attrs = @ \o <<AttrString("db.connection_string", connectionString),
                                AttrInt64("db.connection_count", connectionCount)>>]

AddDBTableInfo(tr, tableName, rowCount) ==
    [tr EXCEPT !.attrs = @ \o <<AttrString("db.table_name", tableName),
                                AttrInt64("db.row_count", rowCount)>>]

AddDBIndexInfo(tr, indexName, indexCount) ==
    [tr EXCEPT !.attrs = @ \o <<AttrString("db.index_name", indexName),
                                AttrInt64("db.index_count", indexCount)>>]

AddDBColumnInfo(tr, columnName, columnCount) ==
    [tr EXCEPT !.attrs = @ \o <<AttrString("db.column_name", columnName),
                                AttrInt64("db.column_count", columnCount)>>]

AddDBTransactionInfo(tr, transactionID, status) ==
    [tr EXCEPT !.attrs = @ \o <<AttrString("db.transaction_id", transactionID),
                                AttrString("db.transaction_status", status)>>]

AddDBErrorInfo(tr, errorMessage, errorCode) ==
    [tr EXCEPT !.attrs = @ \o <<AttrString("db.error_message", errorMessage),
                                AttrString("db.error_code", errorCode)>>]

\* One call of a decorator method: the method and its arguments.
InfoCall(method, s1, s2, s3, n, err) ==
    [method |-> method, s1 |-> s1, s2 |-> s2, s3 |-> s3, n |-> n, err |-> err]

\* AddException and AddError call a method on reflect.TypeOf(err), which is
\* nil for a nil error: the call panics before anything is appended.
InfoPanics(c) == c.method \in {"AddException", "AddError"} /\ c.err.isNil

\* The Trace after the call c (headers and order for AddHTTPHeaders).
AddInfo(tr, c, headers, order) ==
    CASE c.method = "AddJSON" -> AddJSON(tr, c.s1)
      [] c.method = "AddException" -> AddException(tr, c.err, c.s1)
      [] c.method = "AddError" -> AddError(tr, c.err)
      [] c.method = "AddHTTPRequest" -> AddHTTPRequest(tr, c.s1, c.s2, c.s3, "127.0.0.1")
      [] c.method = "AddHTTPResponse" -> AddHTTPResponse(tr, c.n, 1234)
      [] c.method = "AddHTTPHeaders" -> AddHTTPHeaders(tr, headers, order)
      [] c.method = "AddEvent" -> AddEvent(tr, c.s1, c.s2)
      [] c.method = "AddTaskInfo" -> AddTaskInfo(tr, c.s1, c.s2, c.n)
      [] c.method = "AddUser" -> AddUser(tr, c.s1, c.s2)
      [] c.method = "AddCustomMetric" -> AddCustomMetric(tr, c.s1, c.n)
      [] c.method = "AddSystemInfo" -> AddSystemInfo(tr, c.s1, c.s2, c.s3)
      [] c.method = "AddCPUInfo" -> AddCPUInfo(tr)
      [] c.method = "AddMemoryInfo" -> AddMemoryInfo(tr)
      [] c.method = "AddDiskInfo" -> AddDiskInfo(tr)
      [] c.method = "AddProcessInfo" -> AddProcessInfo(tr)
      [] c.method = "AddContainerInfo" -> AddContainerInfo(tr)
      [] c.method = "AddKubernetesInfo" -> AddKubernetesInfo(tr, c.s1, c.s2)
      [] c.method = "AddNetworkInfo" -> AddNetworkInfo(tr, c.s1, c.n)
      [] c.method = "AddDBQuery" -> AddDBQuery(tr, c.s1, c.s2)
      [] c.method = "AddDBInfo" -> AddDBInfo(tr, c.s1, c.s2)
      [] c.method = "AddDBConnectionInfo" -> AddDBConnectionInfo(tr, c.s1, c.n)
      [] c.method = "AddDBTableInfo" -> AddDBTableInfo(tr, c.s1, c.n)
      [] c.method = "AddDBIndexInfo" -> AddDBIndexInfo(tr, c.s1, c.n)
      [] c.method = "AddDBColumnInfo" -> AddDBColumnInfo(tr, c.s1, c.n)
      [] c.method = "AddDBTransactionInfo" -> AddDBTransactionInfo(tr, c.s1, c.s2)
      [] c.method = "AddDBErrorInfo" -> AddDBErrorInfo(tr, c.s1, c.s2)

\* WithSystemInfo(): the CPU, memory and disk attributes.
WithSystemInfo(tr) == AddDiskInfo(AddMemoryInfo(AddCPUInfo(tr)))

WithAttributesOpt(tr, as) == [tr EXCEPT !.attrs = AppendAttrs(@, as)]

WithEnVars(tr, ks) == [tr EXCEPT !.attrs = @ \o EnVarAttrs(ks)]

WithConcurrencyInfo(tr) ==
    [tr EXCEPT !.attrs = Append(@, AttrInt64("goroutine.count", NumGoroutine))]

WithHTTPContext(tr, hdr) == [tr EXCEPT !.ctx = Extract(tr.ctx, Carrier("header", hdr))]

ApplyOption(tr, opt, hdr) ==
    CASE opt.o = "WithAttributes" -> WithAttributesOpt(tr, opt.attrs)
      [] opt.o = "WithEnVars" -> WithEnVars(tr, opt.keys)
      [] opt.o = "WithConcurrencyInfo" -> WithConcurrencyInfo(tr)
      [] opt.o = "WithHTTPContext" -> WithHTTPContext(tr, hdr)
      [] opt.o = "WithSystemInfo" -> WithSystemInfo(tr)

RECURSIVE ApplyOptions(_, _, _)
ApplyOptions(tr, opts, hdr) ==
    IF opts = <<>> THEN tr
    ELSE ApplyOptions(ApplyOption(tr, Head(opts), hdr), Tail(opts), hdr)

\* The parent span id New captures from the context it is given.
CaptureParent(ctx) ==
    IF IsValid(SpanContextFromContext(ctx))
    THEN SpanIDString(SpanContextFromContext(ctx).spanID)
    ELSE ""

\* A New that captures the parent span id but keeps a background context.
NewDroppingContext(ctx, spanName, opts, hdr) ==
    ApplyOptions(
        [ctx |-> Background,
         service |-> spanName,
         tracer |-> spanName,
         span |-> 0,
         parentSpanID |-> CaptureParent(ctx),
         attrs |-> <<>>,
         options |-> <<>>,
         spanKind |-> SpanKindOf("nil", WithSpanKind("internal")),
         links |-> <<>>],
        opts, hdr)

New(ctx, spanName, opts, hdr) ==
    ApplyOptions(
        [ctx |-> IF ctx.isNil THEN Background ELSE ctx,
         service |-> spanName,
         tracer |-> spanName,
         span |-> 0,
         parentSpanID |-> CaptureParent(ctx),
         attrs |-> <<>>,
         options |-> <<>>,
         spanKind |-> SpanKindOf("nil", WithSpanKind("internal")),
         links |-> <<>>],
        opts, hdr)

\* NewWithoutPropagation(ctx, spanName, opts...): a fresh background context
\* whatever ctx is, no parent span id, and a SpanKind without option.
NewWithoutPropagation(ctx, spanName, opts, hdr) ==
    ApplyOptions(
        [ctx |-> Background,
         service |-> spanName,
         tracer |-> spanName,
         span |-> 0,
         parentSpanID |-> "",
         attrs |-> <<>>,
         options |-> <<>>,
         spanKind |-> SpanKindOf("nil", NilOption),
         links |-> <<>>],
        opts, hdr)

\* The options Start hands to tracer.Start.
StartOptions(tr) ==
    tr.options
      \o (IF Len(tr.attrs) > 0 THEN <<WithAttributes(tr.attrs)>> ELSE <<>>)
      \o (IF Len(tr.links) > 0 THEN <<WithLinks(tr.links)>> ELSE <<>>)
      \o <<tr.spanKind.option>>

AddAttribute(tr, as) == [tr EXCEPT !.attrs = AppendAttrs(@, as)]

\* The type switch of AddAttributeIf: the attribute for a supported value.
Supported(v) ==
    v.type \in {"string", "int", "int32", "int64", "uint", "uint32", "uint64",
                "float32", "float64", "bool"}

DynAttr(key, v) ==
    CASE v.type = "string" -> AttrString(key, v.str)
      [] v.type \in {"int", "int32", "int64"} -> AttrInt64(key, v.num)
      [] v.type \in {"uint", "uint32", "uint64"} -> AttrInt64(key, Int64(v.num))
      [] v.type \in {"float32", "float64"} -> AttrFloat64(key, v.num)
      [] v.type = "bool" -> AttrBool(key, v.num = 1)

\* An AddAttributeIf that does not look at the condition.
AddAttributeIfAlways(tr, cond, key, v) ==
    IF ~Supported(v) THEN tr
    ELSE [tr EXCEPT !.attrs = Append(@, DynAttr(key, v))]

\* An AddAttributeIf that adds a value of any other type as a string.
AddAttributeIfStringify(tr, cond, key, v) ==
    IF ~cond THEN tr
    ELSE IF ~Supported(v) THEN [tr EXCEPT !.attrs = Append(@, AttrString(key, v.str))]
    ELSE [tr EXCEPT !.attrs = Append(@, DynAttr(key, v))]

\* AddAttributeIf: nothing for a false condition or an unsupported value,
\* else one attribute appended.
AddAttributeIf(tr, cond, key, v) ==
    IF ~cond THEN tr
    ELSE IF ~Supported(v) THEN tr
    ELSE [tr EXCEPT !.attrs = Append(@, DynAttr(key, v))]

AddLink(tr, sc) == [tr EXCEPT !.links = Append(@, sc)]

\* The two memory accesses of `t.attrs = append(t.attrs, attr.otelAttr)` and
\* of `t.links = append(t.links, link)`, which no lock holds together: the
\* read of the pending list, and the write of the list read plus the addition.
ReadPending(tr, op) == IF op.op = "AddAttribute" THEN tr.attrs ELSE tr.links

WritePending(tr, op, read) ==
    IF op.op = "AddAttribute"
    THEN [tr EXCEPT !.attrs = AppendAttrs(read, op.as)]
    ELSE [tr EXCEPT !.links = Append(read, op.link)]

\* Trace.Server / Client / Producer / Consumer (span.go).
SetKind(tr, k) ==
    LET sk == IF tr.spanKind.null THEN SpanKindOf("self", NilOption) ELSE tr.spanKind
    IN  [tr EXCEPT !.spanKind = [sk EXCEPT !.option = WithSpanKind(k)]]

\* Trace.SpanKind(): the Trace's selector, created with the Trace as owner
\* only when the Trace has none.
SpanKindSelector(tr) ==
    IF tr.spanKind.null THEN [tr EXCEPT !.spanKind = SpanKindOf("self", NilOption)] ELSE tr

\* t.SpanKind().Server() / Client() / Producer() / Consumer() (spanKind.go):
\* sets the option and returns the selector's trace field, "self" for the
\* Trace and "nil" for a nil *Trace.
SelectKind(tr, k) ==
    LET tr1 == SpanKindSelector(tr)
    IN  [t |-> [tr1 EXCEPT !.spanKind.option = WithSpanKind(k)],
         ret |-> tr1.spanKind.trace]

\* An extraction that also captures the parent span id again.
ExtractHTTPContextRecapture(tr, hdr) ==
    LET c == Extract(tr.ctx, Carrier("header", hdr))
    IN  [tr EXCEPT !.ctx = c, !.parentSpanID = CaptureParent(c)]

ExtractHTTPContext(tr, hdr) == [tr EXCEPT !.ctx = Extract(tr.ctx, Carrier("header", hdr))]

\* InjectHTTPContext: the request header afterwards.
InjectHTTPContext(tr, hdr) ==
    IF tr.ctx.isNil THEN hdr ELSE Inject(tr.ctx, Carrier("header", hdr)).h

\* gRPC metadata (metadata.MD): key -> list of values, keys in lower case.

\* A flattening that keeps the last value of each key.
LastValues(md) == [k \in {x \in DOMAIN md : Len(md[x]) > 0} |-> md[k][Len(md[k])]]

\* The map[string]string both gRPC methods build: mdMap[k] = v[0] for every
\* key with at least one value.
FirstValues(md) == [k \in {x \in DOMAIN md : Len(md[x]) > 0} |-> md[k][1]]

\* for k, v := range mdMap { md.Set(k, v) }
SetAll(md, mdMap) ==
    [k \in (DOMAIN md) \cup {ToLower(x) : x \in DOMAIN mdMap} |->
        IF \E x \in DOMAIN mdMap : ToLower(x) = k
        THEN <<mdMap[CHOOSE x \in DOMAIN mdMap : ToLower(x) = k]>>
        ELSE md[k]]

\* Trace.InjectGRPCContext(ctx): the context it returns.
InjectGRPCContext(tr, ctx) ==
    IF tr.ctx.isNil THEN ctx
    ELSE LET md == IF ctx.outMD.ok THEN ctx.outMD.md ELSE EmptyMap
             mdMap == Inject(tr.ctx, Carrier("map", FirstValues(md))).h
         IN  [ctx EXCEPT !.outMD = [ok |-> TRUE, md |-> SetAll(md, mdMap)]]

\* The interceptor UnaryClientInterceptor(trace) returns, called with ctx: the
\* context it hands to the invoker.
UnaryClientInterceptor(tr, ctx) == InjectGRPCContext(tr, ctx)

\* Trace.ExtractGRPCContext(ctx): the Trace afterwards and the context returned.
ExtractGRPCContextOf(tr, ctx) ==
    IF ~ctx.inMD.ok THEN [t |-> tr, ret |-> ctx]
    ELSE LET c == Extract(tr.ctx, Carrier("map", FirstValues(ctx.inMD.md)))
         IN  [t |-> [tr EXCEPT !.ctx = c], ret |-> c]

\* The free function ExtractGRPCContext(ctx).
ExtractGRPCContext(ctx) ==
    IF ~ctx.inMD.ok THEN ctx
    ELSE Extract(ctx, Carrier("map", FirstValues(ctx.inMD.md)))

\* message_queue.go: the headers after Propagate*, the context Extract* returns.
PropagateNats(ctx, headers) == Inject(ctx, Carrier("header", headers)).h
PropagateKafka(ctx, headers) == Inject(ctx, Carrier("kafka", headers)).h
PropagateRabbitMQ(ctx, headers) == Inject(ctx, Carrier("amqp", headers)).h
ExtractNats(ctx, headers) == Extract(ctx, Carrier("header", headers))
ExtractKafka(ctx, headers) == Extract(ctx, Carrier("kafka", headers))
ExtractRabbitMQ(ctx, headers) == Extract(ctx, Carrier("amqp", headers))

GetParentID(tr) == tr.parentSpanID

GetContext(tr) == tr.ctx

\* A GetTraceID that reads the span in the Trace's context.
GetTraceIDOfContext(tr, sps) ==
    IF IsValid(SpanContextFromContext(tr.ctx))
    THEN TraceIDString(SpanContextFromContext(tr.ctx).traceID)
    ELSE ""

\* GetTraceID: the trace id of the span handle when there is one and it is
\* valid, else "".
GetTraceID(tr, sps) ==
    IF tr.span # 0 /\ IsValid(sps[tr.span].sc)
    THEN TraceIDString(sps[tr.span].sc.traceID)
    ELSE ""

\* A Start that keeps the pending attributes and links.
StartedKeeping(tr, n, sc) ==
    [tr EXCEPT !.ctx = [@ EXCEPT !.sc = sc], !.span = n, !.options = <<>>]

\* A Start that also puts the pending kind back to internal.
StartedResettingKind(tr, n, sc) ==
    [tr EXCEPT !.ctx = [@ EXCEPT !.sc = sc],
               !.span = n,
               !.attrs = <<>>,
               !.links = <<>>,
               !.options = <<>>,
               !.spanKind = [@ EXCEPT !.option = WithSpanKind("internal")]]

\* The Trace once tracer.Start has returned span n with span context sc: the
\* new context and handle are kept, the pending decorations are cleared.
Started(tr, n, sc) ==
    [tr EXCEPT !.ctx = [@ EXCEPT !.sc = sc],
               !.span = n,
               !.attrs = <<>>,
               !.links = <<>>,
               !.options = <<>>]

\* A Start that ends the span of the previous handle before it replaces it.
StartEndingPrevious(tr, sps, name) ==
    LET opts == StartOptions(tr)
        cfg == SpanStartConfig(opts, EmptyConfig)
        n == Len(sps) + 1
        sp == NewSpan(n, tr.ctx, tr.service \o "." \o name, cfg)
        closed == IF tr.span # 0 THEN [sps EXCEPT ![tr.span] = SpanEnd(@)] ELSE sps
    IN  [t |-> Started(tr, n, sp.sc), spans |-> Append(closed, sp), fault |-> FALSE]

\* A Start that names the span by the operation alone.
StartUnqualified(tr, sps, name) ==
    LET opts == StartOptions(tr)
        cfg == SpanStartConfig(opts, EmptyConfig)
        n == Len(sps) + 1
        sp == NewSpan(n, tr.ctx, name, cfg)
    IN  IF cfg.panic
        THEN [t |-> [tr EXCEPT !.options = opts], spans |-> sps, fault |-> TRUE]
        ELSE [t |-> Started(tr, n, sp.sc), spans |-> Append(sps, sp), fault |-> FALSE]

\* Start: the Trace and the engine afterwards.  A nil option makes
\* tracer.Start panic, after Start has already extended t.options.
Start(tr, sps, name) ==
    LET opts == StartOptions(tr)
        cfg == SpanStartConfig(opts, EmptyConfig)
        operation == tr.service \o "." \o name
        n == Len(sps) + 1
        sp == NewSpan(n, tr.ctx, operation, cfg)
    IN  IF cfg.panic
        THEN [t |-> [tr EXCEPT !.options = opts], spans |-> sps, fault |-> TRUE]
        ELSE [t |-> Started(tr, n, sp.sc), spans |-> Append(sps, sp), fault |-> FALSE]

\* Now(ctx, name, operation, opts...): New, then Start on the Trace built.
Now(ctx, name, operation, opts, hdr, sps) == Start(New(ctx, name, opts, hdr), sps, operation)

\* t.SpanKind().Server().Start(name): Start on what the selector method
\* returned; on a nil *Trace Start panics at its first field access.
SpanKindStart(tr, sps, k, name) ==
    LET r == SelectKind(tr, k)
    IN  IF r.ret = "nil"
        THEN [t |-> r.t, spans |-> sps, fault |-> TRUE, started |-> FALSE]
        ELSE LET st == Start(r.t, sps, name)
             IN  [t |-> st.t, spans |-> st.spans, fault |-> st.fault, started |-> TRUE]

\* An End that hands the pending attributes to the span it ends.
EndFlushing(tr, sps) ==
    IF tr.span # 0
    THEN [spans |-> [sps EXCEPT ![tr.span] = [SpanEnd(@) EXCEPT !.attrs = @ \o tr.attrs]],
          fault |-> FALSE]
    ELSE [spans |-> sps, fault |-> FALSE]

\* An End without the nil check: ending a nil span handle panics.
EndUnchecked(tr, sps) ==
    IF tr.span # 0
    THEN [spans |-> [sps EXCEPT ![tr.span] = SpanEnd(@)], fault |-> FALSE]
    ELSE [spans |-> sps, fault |-> TRUE]

\* End: the engine afterwards; a method call on a nil span would panic.
End(tr, sps) ==
    IF tr.span # 0
    THEN [spans |-> [sps EXCEPT ![tr.span] = SpanEnd(@)], fault |-> FALSE]
    ELSE [spans |-> sps, fault |-> FALSE]

\* SetStatus: t.span.SetStatus(code, message), with no check of the handle;
\* the method call on the nil span of a Trace never started panics.
SetStatus(tr, sps, code, message) ==
    IF tr.span = 0
    THEN [spans |-> sps, fault |-> TRUE]
    ELSE [spans |-> [sps EXCEPT ![tr.span] = SpanSetStatus(@, code, message)],
          fault |-> FALSE]

\* SetSuccess: SetStatus(codes.Ok, message).
SetSuccess(tr, sps, message) == SetStatus(tr, sps, "Ok", message)

\* RecordError: for a non-nil err, t.span.RecordError(err) and then
\* t.span.SetStatus(codes.Error, err.Error()); nothing for a nil err.
RecordError(tr, sps, err) ==
    IF err.isNil THEN [spans |-> sps, fault |-> FALSE]
    ELSE IF tr.span = 0 THEN [spans |-> sps, fault |-> TRUE]
    ELSE [spans |-> [sps EXCEPT ![tr.span] =
                        SpanSetStatus(SpanRecordError(@, err), "Error", err.msg)],
          fault |-> FALSE]

\* A RecordFailure that sets the status first and records the error after it.
RecordFailureReversed(tr, sps, err, message) ==
    LET r == SetStatus(tr, sps, "Error", message)
    IN  IF r.fault THEN r ELSE RecordError(tr, r.spans, err)

\* RecordFailure: RecordError(err), then SetStatus(codes.Error, message).
RecordFailure(tr, sps, err, message) ==
    LET r == RecordError(tr, sps, err)
    IN  IF r.fault THEN r ELSE SetStatus(tr, r.spans, "Error", message)

----------------------------------------------------------------------------
\* Inputs.

Services == {"svc"}
OpNames == {"op"}
Kinds == {"server", "client", "producer", "consumer"}

AttrArgs ==
    { <<AddString("user_id", "42")>>,
      <<AddInt("a", 1), AddInt("b", 2)>> }

IfArgs ==
    { <<FALSE, "k", Dyn("string", "v", 0)>>,
      <<TRUE, "k2", Dyn("int", "", 5)>>,
      <<TRUE, "k3", Dyn("struct", "", 0)>> }

\* AddAttributeIf calls with one value of each runtime type: the integer and
\* float types of every width, string, bool, and types outside these families.
IfArgsTyped ==
    { <<TRUE, "k", Dyn("string", "v", 0)>>,
      <<TRUE, "k", Dyn("int", "", 1)>>,
      <<TRUE, "k", Dyn("int8", "", 2)>>,
      <<TRUE, "k", Dyn("int16", "", 3)>>,
      <<TRUE, "k", Dyn("int32", "", 4)>>,
      <<TRUE, "k", Dyn("int64", "", 5)>>,
      <<TRUE, "k", Dyn("uint", "", 6)>>,
      <<TRUE, "k", Dyn("uint8", "", 7)>>,
      <<TRUE, "k", Dyn("uint16", "", 8)>>,
      <<TRUE, "k", Dyn("uint32", "", 9)>>,
      <<TRUE, "k", Dyn("uint64", "", 10)>>,
      <<TRUE, "k", Dyn("float32", "", 11)>>,
      <<TRUE, "k", Dyn("float64", "", 12)>>,
      <<TRUE, "k", Dyn("bool", "", 1)>>,
      <<TRUE, "k", Dyn("struct", "", 0)>>,
      <<TRUE, "k", Dyn("[]string", "", 0)>>,
      <<TRUE, "k", Dyn("nil", "", 0)>> }

LinkArgs == { SpanContextOf(7, 7, 1, 0, TRUE) }

OptLists ==
    { <<>>,
      <<OptWithAttributes(<<AddString("custom.key1", "value1"), AddInt("custom.key2", 42)>>)>>,
      <<OptWithEnVars(<<"SERVICE_NAME", "EMPTY", "UNSET">>), OptWithConcurrencyInfo>>,
      <<OptWithConcurrencyInfo, OptWithHTTPContext>>,
      <<OptWithSystemInfo, OptWithConcurrencyInfo>> }

\* The smaller input sets of the lifecycle specifications.
AttrArgs1 == { <<AddString("user_id", "42")>> }
IfArgs1 == { <<TRUE, "k2", Dyn("int", "", 5)>> }
Kinds1 == { "server" }
OptLists1 == { <<>>, <<OptWithHTTPContext>> }

\* The calls of the decorator methods, with the arguments of the
\* repository's tests where there is one.
InfoCalls ==
    { InfoCall("AddJSON", "{\"key\":\"value\"}", "", "", 0, NilErr),
      InfoCall("AddException", "example stack trace", "", "", 0, ErrorsNew("test exception")),
      InfoCall("AddError", "", "", "", 0, ErrorsNew("test error")),
      InfoCall("AddError", "", "", "", 0, NilErr),
      InfoCall("AddHTTPRequest", "GET", "http://example.com", "Go-http-client/1.1", 0, NilErr),
      InfoCall("AddHTTPResponse", "", "", "", 200, NilErr),
      InfoCall("AddHTTPHeaders", "", "", "", 0, NilErr),
      InfoCall("AddEvent", "test-event", "2024-01-01 10:00:00 +0000 UTC", "", 0, NilErr),
      InfoCall("AddTaskInfo", "task-123", "example-task", "", 3, NilErr),
      InfoCall("AddUser", "user-456", "testuser", "", 0, NilErr),
      InfoCall("AddCustomMetric", "response_time", "", "", 2, NilErr) }

\* The calls of the system and database decorator methods.
SystemCalls ==
    { InfoCall("AddSystemInfo", "test-hostname", "192.168.1.1", "production", 0, NilErr),
      InfoCall("AddCPUInfo", "", "", "", 0, NilErr),
      InfoCall("AddMemoryInfo", "", "", "", 0, NilErr),
      InfoCall("AddDiskInfo", "", "", "", 0, NilErr),
      InfoCall("AddProcessInfo", "", "", "", 0, NilErr),
      InfoCall("AddContainerInfo", "", "", "", 0, NilErr),
      InfoCall("AddKubernetesInfo", "pod-1", "default", "", 0, NilErr),
      InfoCall("AddNetworkInfo", "tcp", "", "", 15, NilErr),
      InfoCall("AddDBQuery", "SELECT 1", "postgres", "", 0, NilErr),
      InfoCall("AddDBInfo", "orders", "15.2", "", 0, NilErr),
      InfoCall("AddDBConnectionInfo", "db:5432", "", "", 4, NilErr),
      InfoCall("AddDBTableInfo", "users", "", "", 10, NilErr),
      InfoCall("AddDBIndexInfo", "users_pk", "", "", 1, NilErr),
      InfoCall("AddDBColumnInfo", "email", "", "", 6, NilErr),
      InfoCall("AddDBTransactionInfo", "tx-1", "committed", "", 0, NilErr),
      InfoCall("AddDBErrorInfo", "deadlock", "40P01", "", 0, NilErr) }

InfoMethods == { c.method : c \in InfoCalls \cup SystemCalls }

\* The http.Header handed to AddHTTPHeaders.
InfoHeaders ==
    { [k \in {"X-Custom-Header", "X-Multiple-Header"} |->
          IF k = "X-Custom-Header" THEN <<"CustomValue">> ELSE <<"Value1", "Value2">>] }

\* The orders in which a range over the map h can meet its keys.
KeyOrders(h) ==
    { o \in [1..Cardinality(DOMAIN h) -> DOMAIN h] : \A i, j \in DOMAIN o : i # j => o[i] # o[j] }

\* The span of an upstream service, and header values that carry no usable
\* trace context: version ff, an all-zero trace id, version 00 with a flag
\* above 02.
Upstream == SpanContextOf(9, 8, 1, 0, TRUE)
Junk == <<255>>
ZeroTrace == <<0, 0, 8, 1>>
OtherFlags == <<0, 9, 8, 3>>
Unusable == { Junk, ZeroTrace, OtherFlags }

\* A traceparent of a later version, with a field after the flags.
LaterVersion == <<1, 9, 8, 1, 7>>

\* A span context with a trace id, an all-zero span id and a flag other than
\* sampled, as trace.ContextWithSpanContext accepts it.
TraceOnly == SpanContextOf(9, 0, 2, 0, FALSE)

InitCtxs == { NilCtx, Background, Ctx(Upstream, 0), Ctx(TraceOnly, 0) }

\* What crosses the boundary: the transport and its header container (for
\* gRPC the metadata of the call, absent or a map key -> values).
Wire(kind, h) == [kind |-> kind, h |-> h]

MD(md) == [ok |-> TRUE, md |-> md]

One(k, v) == [x \in {k} |-> v]

EmptyHTTP == Wire("http", EmptyMap)
UpstreamHTTP == Wire("http", One("Traceparent", <<Traceparent(Upstream)>>))

\* The headers at the start, per transport: empty, carrying the trace context
\* of an upstream service, carrying other keys, or carrying unusable values.
HTTPWires ==
    { EmptyHTTP,
      UpstreamHTTP,
      Wire("http", One("Traceparent", <<Junk>>)),
      Wire("http", One("Traceparent", <<OtherFlags>>)),
      Wire("http", One("Traceparent", <<LaterVersion>>)),
      Wire("http", [k \in {"Traceparent", "Tracestate"} |->
                       IF k = "Traceparent" THEN <<Traceparent(Upstream)>> ELSE <<Junk>>]) }

NatsWires ==
    { Wire("nats", EmptyMap),
      Wire("nats", One("Traceparent", <<ZeroTrace>>)),
      Wire("nats", One("X-User", << <<1>> >>)),
      Wire("nats", One("traceparent", <<>>)) }

KafkaWires ==
    { Wire("kafka", <<>>),
      Wire("kafka", <<KafkaHeader("x-user", <<1>>)>>),
      Wire("kafka", <<KafkaHeader("traceparent", Junk)>>),
      Wire("kafka", <<KafkaHeader("traceparent", Junk),
                      KafkaHeader("traceparent", Traceparent(Upstream))>>) }

AMQPWires ==
    { Wire("amqp", EmptyMap),
      Wire("amqp", One("traceparent", AMQPOther(Traceparent(Upstream)))),
      Wire("amqp", One("traceparent", AMQPString(Traceparent(Upstream)))),
      Wire("amqp", One("baggage", AMQPOther(<<3>>))) }

GRPCWires ==
    { Wire("grpc", NoMD),
      Wire("grpc", MD(One("x-user", << <<1>> >>))),
      Wire("grpc", MD(One("traceparent", <<>>))),
      Wire("grpc", MD(One("traceparent", <<ZeroTrace>>))) }

\* Kafka header lists and RabbitMQ tables a producer sets keys in: empty, with
\* other keys, with pairwise distinct keys, and Kafka lists that hold a key
\* twice (a list is free to).
KafkaLists ==
    { Wire("kafka", <<>>),
      Wire("kafka", <<KafkaHeader("x-user", <<1>>)>>),
      Wire("kafka", <<KafkaHeader("traceparent", Junk), KafkaHeader("x-user", <<1>>),
                      KafkaHeader("x-tenant", <<2>>)>>),
      Wire("kafka", <<KafkaHeader("traceparent", Junk),
                      KafkaHeader("traceparent", Traceparent(Upstream))>>),
      Wire("kafka", <<KafkaHeader("x-user", <<1>>), KafkaHeader("traceparent", Junk),
                      KafkaHeader("x-user", <<2>>)>>) }

AMQPTables ==
    { Wire("amqp", EmptyMap),
      Wire("amqp", One("traceparent", AMQPString(Junk))),
      Wire("amqp", [k \in {"traceparent", "x-user"} |->
                       IF k = "x-user" THEN AMQPOther(<<1>>) ELSE AMQPString(Junk)]) }

\* The keys and values of direct Set calls on a carrier.
SetKeys == {"traceparent", "x-user"}
SetValues == {<<4>>, <<5>>}

\* The header of the HTTP request the options of New read.
Request(w) == IF w.kind = "http" THEN w.h ELSE EmptyMap

\* Whether the container holds no header at all.
IsEmptyWire(w) ==
    CASE w.kind = "kafka" -> w.h = <<>>
      [] w.kind = "grpc" -> ~w.h.ok \/ w.h.md = EmptyMap
      [] OTHER -> w.h = EmptyMap

\* The contexts a producer propagates besides the one of its Trace, and the
\* contexts a consumer extracts into.
TxCtxs == { Background, Ctx(Upstream, 3) }
RxCtxs == { Background, Ctx(SpanContextOf(5, 5, 1, 0, FALSE), 4) }

\* The contexts of an outgoing gRPC call: without and with metadata.
Outgoing(ctx, md) == [ctx EXCEPT !.outMD = MD(md)]
CallCtxs == { Background, Outgoing(Background, One("x-user", << <<1>> >>)) }

\* An incoming gRPC context: ctx with the metadata md attached by the transport.
Incoming(ctx, md) == IF md.ok THEN [ctx EXCEPT !.inMD = md] ELSE ctx

\* A second upstream span, and gRPC metadata whose keys hold several values.
Upstream2 == SpanContextOf(7, 6, 1, 0, TRUE)

OutCtxs ==
    { Background,
      Outgoing(Background, One("x-user", << <<1>>, <<2>> >>)),
      Outgoing(Ctx(Upstream2, 0),
               [k \in {"traceparent", "x-user"} |->
                   IF k = "x-user" THEN << <<1>> >> ELSE <<Junk, Traceparent(Upstream2)>>]) }

InCtxs ==
    { Ctx(Upstream2, 4),
      Incoming(Ctx(Upstream2, 4), MD(One("x-user", << <<1>>, <<2>> >>))),
      Incoming(Background, MD(One("traceparent",
                                  <<Traceparent(Upstream), Traceparent(Upstream2)>>))),
      Incoming(Background, MD(One("traceparent", <<Junk, Traceparent(Upstream)>>))) }

\* The contexts of the outgoing calls a client makes: without a span, under
\* two different spans, with and without outgoing metadata of their own.
ClientCtxs ==
    { Background,
      Ctx(Upstream, 0),
      Ctx(Upstream2, 3),
      Outgoing(Background, One("x-user", << <<1>> >>)),
      Outgoing(Ctx(Upstream, 0), One("x-user", << <<1>> >>)) }

UpstreamCall == Incoming(Background, MD(One("traceparent", <<Traceparent(Upstream)>>)))

\* Status codes, messages and errors callers pass.
StatusArgs == {<<"Ok", "done">>, <<"Error", "failed">>}
Errs == {NilErr, ErrorsNew("boom")}
DynErr(err) == Dyn(IF err.isNil THEN "nil" ELSE "error", err.msg, 0)

\* One recorded call: its name and inputs.
Call(op, ctx, opts, as, cond, key, v, sc) ==
    [op |-> op, ctx |-> ctx, opts |-> opts, attrs |-> as, cond |-> cond, key |-> key,
     value |-> v, link |-> sc]

NoDyn == Dyn("", "", 0)

NewCall(ctx, opts) == Call("New", ctx, opts, <<>>, FALSE, "", NoDyn, NoSC)
DecorCall(op, as, cond, key, v, sc) == Call(op, NilCtx, <<>>, as, cond, key, v, sc)
StartCall(name) == DecorCall("Start", <<>>, FALSE, name, NoDyn, NoSC)
OtherCall(op, ctx) == Call(op, ctx, <<>>, <<>>, FALSE, "", NoDyn, NoSC)

\* The calls made so far besides New and Start.
RECURSIVE Calls(_)
Calls(h) ==
    IF h = <<>> THEN 0
    ELSE (IF Head(h).op \in {"New", "NewWithoutPropagation", "Start"} THEN 0 ELSE 1)
         + Calls(Tail(h))

NoRx == [in |-> NilCtx, out |-> NilCtx, arg |-> NilCtx, ret |-> NilCtx]

\* An extraction: the Trace's context before and after, the context passed
\* and the context returned.
Rx(in, out, arg, ret) == [in |-> in, out |-> out, arg |-> arg, ret |-> ret]

NoSent == [sc |-> NoSC, empty |-> FALSE]

\* The injection of ctx into the headers w.
Sent(ctx, w) == [sc |-> SpanContextFromContext(ctx), empty |-> IsEmptyWire(w)]

\* The ambient context a caller hands to New.
Ambient(a, tr) ==
    CASE a = "nil" -> NilCtx
      [] a = "background" -> Background
      [] a = "current" -> GetContext(tr)

----------------------------------------------------------------------------
\* The state machine.

InitWith(ctxs, optLists, wires) ==
    /\ \E ctx \in ctxs, opts \in optLists, w \in wires :
          /\ wire = w
          /\ t = New(ctx, "svc", opts, Request(w))
          /\ hist = <<NewCall(ctx, opts)>>
    /\ spans = <<>>
    /\ lastOp = "New"
    /\ traceNo = 1
    /\ fault = FALSE
    /\ rx = NoRx
    /\ sent = NoSent
    /\ invoked = <<>>
    /\ procs = <<>>

\* A Trace built by NewWithoutPropagation.
InitWithout(ctxs, optLists, wires) ==
    /\ \E ctx \in ctxs, opts \in optLists, w \in wires :
          /\ wire = w
          /\ t = NewWithoutPropagation(ctx, "svc", opts, Request(w))
          /\ hist = <<Call("NewWithoutPropagation", ctx, opts, <<>>, FALSE, "", NoDyn, NoSC)>>
    /\ spans = <<>>
    /\ lastOp = "NewWithoutPropagation"
    /\ traceNo = 1
    /\ fault = FALSE
    /\ rx = NoRx
    /\ sent = NoSent
    /\ invoked = <<>>
    /\ procs = <<>>

\* traceflow.New(ctx, name, opts...) for a further Trace: on nil, on a fresh
\* background context, or on the context the current Trace hands out.
CallNew(ambients, optLists) ==
    /\ ~fault
    /\ traceNo < MaxTraces
    /\ \E a \in ambients, name \in Services, opts \in optLists :
          /\ t' = New(Ambient(a, t), name, opts, Request(wire))
          /\ hist' = Append(hist, NewCall(Ambient(a, t), opts))
    /\ traceNo' = traceNo + 1
    /\ lastOp' = "New"
    /\ UNCHANGED <<invoked, procs, spans, wire, fault, rx, sent>>

\* traceflow.Now(ctx, name, operation, opts...) for a further Trace.
CallNow(ambients, optLists) ==
    /\ ~fault
    /\ traceNo < MaxTraces
    /\ Len(spans) < MaxSpans
    /\ \E a \in ambients, name \in Services, operation \in OpNames, opts \in optLists :
          LET r == Now(Ambient(a, t), name, operation, opts, Request(wire), spans)
          IN  /\ t' = r.t
              /\ spans' = r.spans
              /\ fault' = r.fault
              /\ hist' = hist \o <<NewCall(Ambient(a, t), opts), StartCall(operation)>>
    /\ traceNo' = traceNo + 1
    /\ lastOp' = "Start"
    /\ UNCHANGED <<invoked, procs, wire, rx, sent>>

CallAddAttribute(args) ==
    /\ ~fault
    /\ Calls(hist) < MaxCalls
    /\ \E as \in args :
          /\ t' = AddAttribute(t, as)
          /\ hist' = Append(hist, DecorCall("AddAttribute", as, FALSE, "", NoDyn, NoSC))
    /\ lastOp' = "AddAttribute"
    /\ UNCHANGED <<invoked, procs, spans, wire, traceNo, fault, rx, sent>>

\* One call of a decorator method.
CallAddInfo(calls, hdrs) ==
    /\ ~fault
    /\ Calls(hist) < MaxCalls
    /\ \E c \in calls, h \in hdrs :
          \E order \in IF c.method = "AddHTTPHeaders" THEN KeyOrders(h) ELSE {<<>>} :
             LET tr == IF InfoPanics(c) THEN t ELSE AddInfo(t, c, h, order)
                 added == SubSeq(tr.attrs, Len(t.attrs) + 1, Len(tr.attrs))
             IN  /\ t' = tr
                 /\ fault' = InfoPanics(c)
                 /\ hist' = Append(hist, DecorCall(c.method,
                                                   [i \in 1..Len(added) |-> [otelAttr |-> added[i]]],
                                                   FALSE, "", NoDyn, NoSC))
                 /\ lastOp' = c.method
    /\ UNCHANGED <<invoked, procs, spans, wire, traceNo, rx, sent>>

CallAddAttributeIf(args) ==
    /\ ~fault
    /\ Calls(hist) < MaxCalls
    /\ \E a \in args :
          /\ t' = AddAttributeIf(t, a[1], a[2], a[3])
          /\ hist' = Append(hist, DecorCall("AddAttributeIf", <<>>, a[1], a[2], a[3], NoSC))
    /\ lastOp' = "AddAttributeIf"
    /\ UNCHANGED <<invoked, procs, spans, wire, traceNo, fault, rx, sent>>

CallAddLink ==
    /\ ~fault
    /\ Calls(hist) < MaxCalls
    /\ \E sc \in LinkArgs :
          /\ t' = AddLink(t, sc)
          /\ hist' = Append(hist, DecorCall("AddLink", <<>>, FALSE, "", NoDyn, sc))
    /\ lastOp' = "AddLink"
    /\ UNCHANGED <<invoked, procs, spans, wire, traceNo, fault, rx, sent>>

CallSetKind(kinds) ==
    /\ ~fault
    /\ Calls(hist) < MaxCalls
    /\ \E k \in kinds :
          /\ t' = SetKind(t, k)
          /\ hist' = Append(hist, DecorCall("SetKind", <<>>, FALSE, k, NoDyn, NoSC))
    /\ lastOp' = "SetKind"
    /\ UNCHANGED <<invoked, procs, spans, wire, traceNo, fault, rx, sent>>

\* t.SpanKind().Server() and the like, the returned Trace not used.
CallSpanKind(kinds) ==
    /\ ~fault
    /\ Calls(hist) < MaxCalls
    /\ \E k \in kinds :
          /\ t' = SelectKind(t, k).t
          /\ hist' = Append(hist, DecorCall("SpanKind", <<>>, FALSE, k, NoDyn, NoSC))
    /\ lastOp' = "SpanKind"
    /\ UNCHANGED <<invoked, procs, spans, wire, traceNo, fault, rx, sent>>

\* The chain t.SpanKind().Server().Start(name): the log gets the selector
\* call, and the Start call when the chain reaches it.
CallSpanKindStart(kinds) ==
    /\ ~fault
    /\ Calls(hist) < MaxCalls
    /\ Len(spans) < MaxSpans
    /\ \E k \in kinds, name \in OpNames :
          LET r == SpanKindStart(t, spans, k, name)
              sel == DecorCall("SpanKind", <<>>, FALSE, k, NoDyn, NoSC)
          IN  /\ t' = r.t
              /\ spans' = r.spans
              /\ fault' = r.fault
              /\ hist' = IF r.started THEN hist \o <<sel, StartCall(name)>>
                         ELSE Append(hist, sel)
              /\ lastOp' = IF r.started THEN "Start" ELSE "SpanKind"
    /\ UNCHANGED <<invoked, procs, wire, traceNo, rx, sent>>

CallStart ==
    /\ ~fault
    /\ Len(spans) < MaxSpans
    /\ \E name \in OpNames :
          LET r == Start(t, spans, name)
          IN  /\ t' = r.t
              /\ spans' = r.spans
              /\ fault' = r.fault
              /\ hist' = Append(hist, StartCall(name))
    /\ lastOp' = "Start"
    /\ UNCHANGED <<invoked, procs, wire, traceNo, rx, sent>>

CallEnd ==
    /\ ~fault
    /\ Calls(hist) < MaxCalls
    /\ LET r == End(t, spans)
       IN  /\ spans' = r.spans
           /\ fault' = r.fault
    /\ hist' = Append(hist, OtherCall("End", NilCtx))
    /\ lastOp' = "End"
    /\ UNCHANGED <<invoked, procs, t, wire, traceNo, rx, sent>>

CallInjectHTTPContext ==
    /\ ~fault
    /\ Calls(hist) < MaxCalls
    /\ wire.kind = "http"
    /\ wire' = Wire("http", InjectHTTPContext(t, wire.h))
    /\ sent' = Sent(t.ctx, wire)
    /\ hist' = Append(hist, OtherCall("InjectHTTPContext", NilCtx))
    /\ lastOp' = "InjectHTTPContext"
    /\ UNCHANGED <<invoked, procs, t, spans, traceNo, fault, rx>>

\* keep: whether the caller looks at what the extraction did.
CallExtractHTTPContext(keep) ==
    /\ ~fault
    /\ Calls(hist) < MaxCalls
    /\ wire.kind = "http"
    /\ t' = ExtractHTTPContext(t, wire.h)
    /\ rx' = IF keep THEN Rx(t.ctx, t'.ctx, t.ctx, t'.ctx) ELSE rx
    /\ hist' = Append(hist, OtherCall("ExtractHTTPContext", NilCtx))
    /\ lastOp' = "ExtractHTTPContext"
    /\ UNCHANGED <<invoked, procs, spans, wire, traceNo, fault, sent>>

\* Trace.InjectGRPCContext(ctx) in a client; the transport hands the outgoing
\* metadata of the call to the server.
CallInjectGRPCContext(ctxs) ==
    /\ ~fault
    /\ Calls(hist) < MaxCalls
    /\ wire.kind = "grpc"
    /\ \E ctx \in ctxs :
          /\ wire' = Wire("grpc", InjectGRPCContext(t, ctx).outMD)
          /\ sent' = Sent(t.ctx, Wire("grpc", ctx.outMD))
          /\ hist' = Append(hist, OtherCall("InjectGRPCContext", ctx))
    /\ lastOp' = "InjectGRPCContext"
    /\ UNCHANGED <<invoked, procs, t, spans, traceNo, fault, rx>>

\* One outgoing unary call through the interceptor built over the Trace: the
\* injection, then the invoker with the context obtained.
CallUnaryClientInterceptor(ctxs) ==
    /\ ~fault
    /\ Calls(hist) < MaxCalls
    /\ wire.kind = "grpc"
    /\ \E ctx \in ctxs :
          LET out == UnaryClientInterceptor(t, ctx)
          IN  /\ invoked' = Append(invoked, out)
              /\ wire' = Wire("grpc", out.outMD)
              /\ sent' = Sent(t.ctx, Wire("grpc", ctx.outMD))
              /\ hist' = Append(hist, OtherCall("UnaryClientInterceptor", ctx))
    /\ lastOp' = "UnaryClientInterceptor"
    /\ UNCHANGED <<procs, t, spans, traceNo, fault, rx>>

\* Trace.ExtractGRPCContext(ctx) in a server handler, ctx being the context
\* of the incoming call.
CallExtractGRPCContext(ctxs, keep) ==
    /\ ~fault
    /\ Calls(hist) < MaxCalls
    /\ \E ctx \in ctxs :
          LET r == ExtractGRPCContextOf(t, ctx)
          IN  /\ t' = r.t
              /\ rx' = IF keep THEN Rx(t.ctx, r.t.ctx, ctx, r.ret) ELSE rx
              /\ hist' = Append(hist, OtherCall("ExtractGRPCContext", ctx))
    /\ lastOp' = "ExtractGRPCContext"
    /\ UNCHANGED <<invoked, procs, spans, wire, traceNo, fault, sent>>

\* The free function ExtractGRPCContext(ctx) in a server handler.
CallExtractGRPCContextFn ==
    /\ ~fault
    /\ Calls(hist) < MaxCalls
    /\ wire.kind = "grpc"
    /\ \E base \in RxCtxs :
          LET ctx == Incoming(base, wire.h)
          IN  /\ rx' = Rx(t.ctx, t.ctx, ctx, ExtractGRPCContext(ctx))
              /\ hist' = Append(hist, OtherCall("ExtractGRPCContextFn", ctx))
    /\ lastOp' = "ExtractGRPCContextFn"
    /\ UNCHANGED <<invoked, procs, t, spans, wire, traceNo, fault, sent>>

\* PropagateNats / PropagateKafka / PropagateRabbitMQ in a producer, with the
\* context of its Trace or another one.
CallPropagateNats(ctxs) ==
    /\ ~fault
    /\ Calls(hist) < MaxCalls
    /\ wire.kind = "nats"
    /\ \E ctx \in ctxs :
          /\ wire' = Wire("nats", PropagateNats(ctx, wire.h))
          /\ sent' = Sent(ctx, wire)
          /\ hist' = Append(hist, OtherCall("PropagateNats", ctx))
    /\ lastOp' = "PropagateNats"
    /\ UNCHANGED <<invoked, procs, t, spans, traceNo, fault, rx>>

\* The trace context of ctx stored in the nats.Header by the header type's
\* own Set, as the propagator does through a NATSHeaderCarrier.
CallNATSHeaderSet(ctxs) ==
    /\ ~fault
    /\ Calls(hist) < MaxCalls
    /\ wire.kind = "nats"
    /\ \E ctx \in ctxs :
          /\ wire' = Wire("nats", Inject(ctx, Carrier("natsheader", wire.h)).h)
          /\ sent' = Sent(ctx, wire)
          /\ hist' = Append(hist, OtherCall("NATSHeaderSet", ctx))
    /\ lastOp' = "NATSHeaderSet"
    /\ UNCHANGED <<invoked, procs, t, spans, traceNo, fault, rx>>

CallPropagateKafka(ctxs) ==
    /\ ~fault
    /\ Calls(hist) < MaxCalls
    /\ wire.kind = "kafka"
    /\ \E ctx \in ctxs :
          /\ wire' = Wire("kafka", PropagateKafka(ctx, wire.h))
          /\ sent' = Sent(ctx, wire)
          /\ hist' = Append(hist, OtherCall("PropagateKafka", ctx))
    /\ lastOp' = "PropagateKafka"
    /\ UNCHANGED <<invoked, procs, t, spans, traceNo, fault, rx>>

CallPropagateRabbitMQ(ctxs) ==
    /\ ~fault
    /\ Calls(hist) < MaxCalls
    /\ wire.kind = "amqp"
    /\ \E ctx \in ctxs :
          /\ wire' = Wire("amqp", PropagateRabbitMQ(ctx, wire.h))
          /\ sent' = Sent(ctx, wire)
          /\ hist' = Append(hist, OtherCall("PropagateRabbitMQ", ctx))
    /\ lastOp' = "PropagateRabbitMQ"
    /\ UNCHANGED <<invoked, procs, t, spans, traceNo, fault, rx>>

\* carrier.Set(key, value) on the Kafka or RabbitMQ carrier of the headers.
CallCarrierSet(keys, values) ==
    /\ ~fault
    /\ Calls(hist) < MaxCalls
    /\ wire.kind \in {"kafka", "amqp"}
    /\ \E k \in keys, v \in values :
          /\ wire' = Wire(wire.kind, CarrierSet(Carrier(wire.kind, wire.h), k, v).h)
          /\ hist' = Append(hist, DecorCall("Set", <<>>, FALSE, k, Dyn("bytes", "", v[1]), NoSC))
    /\ lastOp' = "Set"
    /\ UNCHANGED <<invoked, procs, t, spans, traceNo, fault, rx, sent>>

\* ExtractNats / ExtractKafka / ExtractRabbitMQ in a consumer.
CallExtractNats(ctxs) ==
    /\ ~fault
    /\ Calls(hist) < MaxCalls
    /\ wire.kind = "nats"
    /\ \E ctx \in ctxs :
          /\ rx' = Rx(t.ctx, t.ctx, ctx, ExtractNats(ctx, wire.h))
          /\ hist' = Append(hist, OtherCall("ExtractNats", ctx))
    /\ lastOp' = "ExtractNats"
    /\ UNCHANGED <<invoked, procs, t, spans, wire, traceNo, fault, sent>>

\* The trace context read from the nats.Header by the header type's own
\* Get, as the propagator does through a NATSHeaderCarrier.
CallNATSHeaderGet(ctxs) ==
    /\ ~fault
    /\ Calls(hist) < MaxCalls
    /\ wire.kind = "nats"
    /\ \E ctx \in ctxs :
          LET tp == NATSHeaderGet(wire.h, "traceparent")
              readsState == /\ Len(tp) >= 4
                            /\ tp[1] <= maxVersion
                            /\ (tp[1] = 0 => (Len(tp) = 4 /\ tp[4] <= 2))
              panics == \/ NATSHeaderGetPanics(wire.h, "traceparent")
                        \/ (readsState /\ NATSHeaderGetPanics(wire.h, "tracestate"))
                        \/ NATSHeaderGetPanics(wire.h, "baggage")
          IN  /\ rx' = IF panics THEN rx
                       ELSE Rx(t.ctx, t.ctx, ctx, Extract(ctx, Carrier("natsheader", wire.h)))
              /\ fault' = panics
              /\ hist' = Append(hist, OtherCall("NATSHeaderGet", ctx))
    /\ lastOp' = "NATSHeaderGet"
    /\ UNCHANGED <<invoked, procs, t, spans, wire, traceNo, sent>>

CallExtractKafka(ctxs) ==
    /\ ~fault
    /\ Calls(hist) < MaxCalls
    /\ wire.kind = "kafka"
    /\ \E ctx \in ctxs :
          /\ rx' = Rx(t.ctx, t.ctx, ctx, ExtractKafka(ctx, wire.h))
          /\ hist' = Append(hist, OtherCall("ExtractKafka", ctx))
    /\ lastOp' = "ExtractKafka"
    /\ UNCHANGED <<invoked, procs, t, spans, wire, traceNo, fault, sent>>

CallExtractRabbitMQ(ctxs) ==
    /\ ~fault
    /\ Calls(hist) < MaxCalls
    /\ wire.kind = "amqp"
    /\ \E ctx \in ctxs :
          /\ rx' = Rx(t.ctx, t.ctx, ctx, ExtractRabbitMQ(ctx, wire.h))
          /\ hist' = Append(hist, OtherCall("ExtractRabbitMQ", ctx))
    /\ lastOp' = "ExtractRabbitMQ"
    /\ UNCHANGED <<invoked, procs, t, spans, wire, traceNo, fault, sent>>

CallSetStatus(args) ==
    /\ ~fault
    /\ Calls(hist) < MaxCalls
    /\ \E a \in args :
          LET r == SetStatus(t, spans, a[1], a[2])
          IN  /\ spans' = r.spans
              /\ fault' = r.fault
              /\ hist' = Append(hist, DecorCall("SetStatus", <<>>, FALSE, a[1],
                                                Dyn("string", a[2], 0), NoSC))
    /\ lastOp' = "SetStatus"
    /\ UNCHANGED <<invoked, procs, t, wire, traceNo, rx, sent>>

CallSetSuccess ==
    /\ ~fault
    /\ Calls(hist) < MaxCalls
    /\ LET r == SetSuccess(t, spans, "done")
       IN  /\ spans' = r.spans
           /\ fault' = r.fault
    /\ hist' = Append(hist, DecorCall("SetSuccess", <<>>, FALSE, "Ok",
                                      Dyn("string", "done", 0), NoSC))
    /\ lastOp' = "SetSuccess"
    /\ UNCHANGED <<invoked, procs, t, wire, traceNo, rx, sent>>

CallRecordError(errs) ==
    /\ ~fault
    /\ Calls(hist) < MaxCalls
    /\ \E err \in errs :
          LET r == RecordError(t, spans, err)
          IN  /\ spans' = r.spans
              /\ fault' = r.fault
              /\ hist' = Append(hist, DecorCall("RecordError", <<>>, FALSE, "",
                                                DynErr(err), NoSC))
    /\ lastOp' = "RecordError"
    /\ UNCHANGED <<invoked, procs, t, wire, traceNo, rx, sent>>

CallRecordFailure(errs) ==
    /\ ~fault
    /\ Calls(hist) < MaxCalls
    /\ \E err \in errs :
          LET r == RecordFailure(t, spans, err, "failed")
          IN  /\ spans' = r.spans
              /\ fault' = r.fault
              /\ hist' = Append(hist, DecorCall("RecordFailure", <<>>, FALSE, "failed",
                                                DynErr(err), NoSC))
    /\ lastOp' = "RecordFailure"
    /\ UNCHANGED <<invoked, procs, t, wire, traceNo, rx, sent>>

----------------------------------------------------------------------------
\* Specifications.

\* The lifecycle of one Trace: decoration, extraction from an inbound request
\* or call, Start and End.
Init == InitWith(InitCtxs, {<<>>}, {UpstreamHTTP})

Next ==
    \/ CallAddAttribute(AttrArgs1)
    \/ CallAddAttributeIf(IfArgs1)
    \/ CallAddLink
    \/ CallSetKind(Kinds1)
    \/ CallStart
    \/ CallEnd
    \/ CallExtractHTTPContext(FALSE)
    \/ CallExtractGRPCContext({UpstreamCall}, FALSE)

Spec == Init /\ [][Next]_vars

\* Trace objects on both sides of an HTTP boundary: a Trace is started, its
\* context injected into the request, and a further Trace is constructed on a
\* fresh background context.
InitLink == InitWith({Background}, {<<>>}, {EmptyHTTP})

NextLink ==
    \/ CallNew({"background"}, OptLists1)
    \/ CallNow({"background"}, OptLists1)
    \/ CallStart
    \/ CallEnd
    \/ CallInjectHTTPContext
    \/ CallExtractHTTPContext(FALSE)

SpecLink == InitLink /\ [][NextLink]_vars

\* The decoration of one Trace, with every option and every kind.
InitDecor == InitWith({Background}, OptLists, {UpstreamHTTP})

NextDecor ==
    \/ CallAddAttribute(AttrArgs)
    \/ CallAddAttributeIf(IfArgs)
    \/ CallAddLink
    \/ CallSetKind(Kinds)
    \/ CallStart
    \/ CallEnd

SpecDecor == InitDecor /\ [][NextDecor]_vars

\* Propagation over one transport: producers inject into the headers,
\* consumers extract from them.  Over HTTP and gRPC both sides go through a
\* Trace; the message-queue functions take the context directly.
InitCarrier ==
    \/ InitWith({Background}, {<<>>}, HTTPWires)
    \/ InitWith({Background}, {<<>>}, NatsWires)
    \/ InitWith({Background}, {<<>>}, KafkaWires)
    \/ InitWith({Background}, {<<>>}, AMQPWires)
    \/ InitWith({Background}, {<<>>}, GRPCWires)

NextCarrier ==
    \/ (wire.kind \in {"http", "grpc"} /\ CallNew({"background"}, {<<>>}))
    \/ (wire.kind \in {"http", "grpc"} /\ CallStart)
    \/ CallInjectHTTPContext
    \/ CallExtractHTTPContext(TRUE)
    \/ CallInjectGRPCContext(CallCtxs)
    \/ (wire.kind = "grpc" /\ CallExtractGRPCContext({Incoming(b, wire.h) : b \in RxCtxs}, TRUE))
    \/ CallExtractGRPCContextFn
    \/ CallPropagateNats(TxCtxs)
    \/ CallPropagateKafka(TxCtxs)
    \/ CallPropagateRabbitMQ(TxCtxs)
    \/ CallExtractNats(RxCtxs)
    \/ CallExtractKafka(RxCtxs)
    \/ CallExtractRabbitMQ(RxCtxs)

SpecCarrier == InitCarrier /\ [][NextCarrier]_vars

\* Status and errors on one Trace, before Start, on the live span and after
\* End, next to the HTTP injection and extraction.
InitStatus == InitWith(InitCtxs, {<<>>}, {UpstreamHTTP})

NextStatus ==
    \/ CallStart
    \/ CallEnd
    \/ CallSetStatus(StatusArgs)
    \/ CallSetSuccess
    \/ CallRecordError(Errs)
    \/ CallRecordFailure(Errs)
    \/ CallInjectHTTPContext
    \/ CallExtractHTTPContext(FALSE)

SpecStatus == InitStatus /\ [][NextStatus]_vars

\* Repeated Set and Propagate calls on one Kafka header list or one RabbitMQ
\* table.
InitHeaders ==
    \/ InitWith({Background}, {<<>>}, KafkaLists)
    \/ InitWith({Background}, {<<>>}, AMQPTables)

NextHeaders ==
    \/ CallCarrierSet(SetKeys, SetValues)
    \/ CallPropagateKafka(TxCtxs)
    \/ CallPropagateRabbitMQ(TxCtxs)

SpecHeaders == InitHeaders /\ [][NextHeaders]_vars

\* The gRPC adapter of one Trace: injection into outgoing metadata and
\* extraction from incoming metadata, with keys that hold several values.
InitGRPC == InitWith({Background}, {<<>>}, {Wire("grpc", NoMD)})

NextGRPC ==
    \/ CallStart
    \/ CallInjectGRPCContext(OutCtxs)
    \/ CallExtractGRPCContext(InCtxs, TRUE)

SpecGRPC == InitGRPC /\ [][NextGRPC]_vars

\* Two goroutines that decorate at the same time.  Each builds its own Trace
\* from the context of the shared one, decorates the shared Trace (own FALSE)
\* or its own (own TRUE), one attribute or link per call, and starts its own.
GoAttr(own, k, v) == [op |-> "AddAttribute", own |-> own, as |-> <<AddString(k, v)>>, link |-> NoSC]
GoLink(own, sc) == [op |-> "AddLink", own |-> own, as |-> <<>>, link |-> sc]

GoPrograms ==
    { << <<GoAttr(FALSE, "a", "1"), GoAttr(TRUE, "b", "2"), GoAttr(TRUE, "c", "3")>>,
         <<GoAttr(FALSE, "d", "4"), GoAttr(TRUE, "e", "5")>> >>,
      << <<GoLink(FALSE, SpanContextOf(7, 7, 1, 0, TRUE)), GoLink(TRUE, SpanContextOf(7, 6, 1, 0, TRUE))>>,
         <<GoLink(FALSE, SpanContextOf(7, 5, 1, 0, TRUE)), GoAttr(TRUE, "e", "5")>> >>,
      << <<GoAttr(TRUE, "b", "2"), GoLink(TRUE, SpanContextOf(7, 6, 1, 0, TRUE))>>,
         <<GoAttr(FALSE, "d", "4")>> >> }

Goroutine(prog, tr) ==
    [pc |-> "new", adds |-> prog, todo |-> prog, read |-> <<>>, tr |-> tr, span |-> 0]

InitRace ==
    /\ \E ctx \in {Background, Ctx(Upstream, 0)}, progs \in GoPrograms :
          /\ t = New(ctx, "svc", <<>>, Request(UpstreamHTTP))
          /\ hist = <<NewCall(ctx, <<>>)>>
          /\ procs = [i \in 1..2 |-> Goroutine(progs[i], New(ctx, "svc", <<>>, Request(UpstreamHTTP)))]
    /\ wire = UpstreamHTTP
    /\ spans = <<>>
    /\ lastOp = "New"
    /\ traceNo = 1
    /\ fault = FALSE
    /\ rx = NoRx
    /\ sent = NoSent
    /\ invoked = <<>>

\* traceflow.New(ctx, name) in goroutine i, ctx being the shared context.
GoNew(i) ==
    /\ procs[i].pc = "new"
    /\ procs' = [procs EXCEPT ![i].tr = New(t.ctx, "svc", <<>>, Request(wire)),
                              ![i].pc = "read"]
    /\ lastOp' = "New"
    /\ UNCHANGED <<t, spans, wire, hist, traceNo, fault, rx, sent, invoked>>

\* The read of t.attrs (t.links) in the append of goroutine i's next call.
GoRead(i) ==
    /\ procs[i].pc = "read"
    /\ LET op == Head(procs[i].todo)
           tr == IF op.own THEN procs[i].tr ELSE t
       IN  procs' = [procs EXCEPT ![i].read = ReadPending(tr, op), ![i].pc = "write"]
    /\ UNCHANGED <<t, spans, wire, hist, lastOp, traceNo, fault, rx, sent, invoked>>

\* The write that completes the call: the list read, plus the addition.
GoWrite(i) ==
    /\ procs[i].pc = "write"
    /\ LET op == Head(procs[i].todo)
           rest == Tail(procs[i].todo)
           next == IF rest = <<>> THEN "start" ELSE "read"
       IN  /\ t' = IF op.own THEN t ELSE WritePending(t, op, procs[i].read)
           /\ procs' = [procs EXCEPT
                          ![i].tr = IF op.own THEN WritePending(@, op, procs[i].read) ELSE @,
                          ![i].todo = rest,
                          ![i].read = <<>>,
                          ![i].pc = next]
           /\ lastOp' = op.op
    /\ UNCHANGED <<spans, wire, hist, traceNo, fault, rx, sent, invoked>>

\* Start on goroutine i's own Trace.
GoStart(i) ==
    /\ procs[i].pc = "start"
    /\ Len(spans) < MaxSpans
    /\ LET r == Start(procs[i].tr, spans, "op")
       IN  /\ spans' = r.spans
           /\ fault' = r.fault
           /\ procs' = [procs EXCEPT ![i].tr = r.t, ![i].span = r.t.span, ![i].pc = "done"]
    /\ lastOp' = "Start"
    /\ UNCHANGED <<t, wire, hist, traceNo, rx, sent, invoked>>

NextRace ==
    \/ \E i \in 1..2 : GoNew(i)
    \/ \E i \in 1..2 : GoRead(i)
    \/ \E i \in 1..2 : GoWrite(i)
    \/ \E i \in 1..2 : GoStart(i)

SpecRace == InitRace /\ [][NextRace]_vars

\* Decoration through the decorator methods as well: a Trace decorated with
\* error, payload, HTTP and task information, started and ended.
InitInfo == InitWith({Background}, {<<>>}, {UpstreamHTTP})

NextInfo ==
    \/ CallAddInfo(InfoCalls, InfoHeaders)
    \/ CallAddAttribute(AttrArgs1)
    \/ CallAddLink
    \/ CallSetKind(Kinds1)
    \/ CallStart
    \/ CallEnd

SpecInfo == InitInfo /\ [][NextInfo]_vars

\* A Trace built with or without the system information option, decorated
\* with system and database information, and started.
InitSystem == InitWith({Background}, {<<>>, <<OptWithSystemInfo>>}, {UpstreamHTTP})

NextSystem ==
    \/ CallAddInfo(SystemCalls, InfoHeaders)
    \/ CallAddAttribute(AttrArgs1)
    \/ CallStart

SpecSystem == InitSystem /\ [][NextSystem]_vars

\* A NATS message whose headers are written and read through PropagateNats /
\* ExtractNats and through the header type's own Set / Get.
InitNats == InitWith({Background}, {<<>>}, NatsWires)

NextNats ==
    \/ CallPropagateNats(TxCtxs)
    \/ CallExtractNats(RxCtxs)
    \/ CallNATSHeaderSet(TxCtxs)
    \/ CallNATSHeaderGet(RxCtxs)

SpecNats == InitNats /\ [][NextNats]_vars

\* A gRPC client whose calls go through the interceptor built over one Trace.
InitClient == InitWith({Background}, {<<>>}, {Wire("grpc", NoMD)})

NextClient ==
    \/ CallStart
    \/ CallUnaryClientInterceptor(ClientCtxs)

SpecClient == InitClient /\ [][NextClient]_vars

\* AddAttributeIf with values of every runtime type, and Start.
InitTyped == InitWith({Background}, {<<>>}, {UpstreamHTTP})

NextTyped ==
    \/ CallAddAttributeIf(IfArgsTyped)
    \/ CallStart

SpecTyped == InitTyped /\ [][NextTyped]_vars

\* AddAttributeIf with unsigned values up to the largest of each type.
IfArgsUnsigned ==
    { <<TRUE, "k", Dyn(ty, "", n)>> :
         ty \in {"uint", "uint64"}, n \in {0, 6, MaxInt64, MaxInt64 + 1, MaxUint64} }
      \cup { <<TRUE, "k", Dyn("uint32", "", n)>> : n \in {0, 9, MaxUint32} }

NextUnsigned ==
    \/ CallAddAttributeIf(IfArgsUnsigned)
    \/ CallStart

SpecUnsigned == InitTyped /\ [][NextUnsigned]_vars

\* Span kinds on one Trace built by New or by NewWithoutPropagation, from a
\* nil context, a background context or a context that carries a span.
InitKind ==
    \/ InitWith(InitCtxs, {<<>>}, {UpstreamHTTP})
    \/ InitWithout(InitCtxs, {<<>>}, {UpstreamHTTP})

NextKind ==
    \/ CallSetKind(Kinds)
    \/ CallSpanKind(Kinds)
    \/ CallSpanKindStart(Kinds)
    \/ CallStart
    \/ CallEnd

SpecKind == InitKind /\ [][NextKind]_vars

----------------------------------------------------------------------------
\* Reading the call log.

\* The position in h of the k-th call of Start.
NthStart(h, k) ==
    CHOOSE i \in 1..Len(h) :
        h[i].op = "Start" /\ Cardinality({j \in 1..i : h[j].op = "Start"}) = k

\* The position of the call of New or Start that opens the period position i lies in.
PeriodBegin(h, i) ==
    CHOOSE j \in 1..(i - 1) :
        /\ h[j].op \in {"New", "Start"}
        /\ \A x \in (j + 1)..(i - 1) : h[x].op \notin {"New", "Start"}

\* The position after the period that Start number k opens: the next call of
\* New or Start, or the end of the log.
PeriodEnd(h, k) ==
    LET i == NthStart(h, k)
        later == {j \in (i + 1)..Len(h) : h[j].op \in {"New", "Start"}}
    IN  IF later = {} THEN Len(h) + 1 ELSE CHOOSE j \in later : \A x \in later : j <= x

\* The attributes an option list asks for, as written by the caller.
RECURSIVE OptionAttrs(_)
OptionAttrs(opts) ==
    IF opts = <<>> THEN <<>>
    ELSE LET o == Head(opts)
             set == SelectSeq(o.keys, LAMBDA k : k \in DOMAIN Env /\ Env[k] # "")
             mine == CASE o.o = "WithAttributes" ->
                            [i \in 1..Len(o.attrs) |-> o.attrs[i].otelAttr]
                      [] o.o = "WithEnVars" ->
                            [i \in 1..Len(set) |-> KeyValue(set[i], "STRING", Env[set[i]], 0)]
                      [] o.o = "WithConcurrencyInfo" ->
                            <<KeyValue("goroutine.count", "INT64", "", NumGoroutine)>>
                      [] o.o = "WithSystemInfo" ->
                            AddDiskInfo(AddMemoryInfo(AddCPUInfo([attrs |-> <<>>]))).attrs
                      [] OTHER -> <<>>
         IN  mine \o OptionAttrs(Tail(opts))

\* The attributes one call asks for.
AskedAttrs(e) ==
    CASE e.op = "New" -> OptionAttrs(e.opts)
      [] e.op = "AddAttribute" -> [i \in 1..Len(e.attrs) |-> e.attrs[i].otelAttr]
      [] e.op \in InfoMethods -> [i \in 1..Len(e.attrs) |-> e.attrs[i].otelAttr]
      [] e.op = "AddAttributeIf" /\ e.cond /\ e.value.type = "string" ->
            <<KeyValue(e.key, "STRING", e.value.str, 0)>>
      [] e.op = "AddAttributeIf" /\ e.cond /\ e.value.type = "int" ->
            <<KeyValue(e.key, "INT64", "", e.value.num)>>
      [] OTHER -> <<>>

\* The links one call asks for.
AskedLinks(e) == IF e.op = "AddLink" THEN <<e.link>> ELSE <<>>

\* The attributes (links) asked for by the calls at positions a..b of h, in order.
RECURSIVE AskedAttrsIn(_, _, _)
AskedAttrsIn(h, a, b) ==
    IF a > b THEN <<>> ELSE AskedAttrs(h[a]) \o AskedAttrsIn(h, a + 1, b)

RECURSIVE AskedLinksIn(_, _, _)
AskedLinksIn(h, a, b) ==
    IF a > b THEN <<>> ELSE AskedLinks(h[a]) \o AskedLinksIn(h, a + 1, b)

\* The calls of End at positions a..b of h.
EndsIn(h, a, b) == Cardinality({i \in a..b : h[i].op = "End"})

----------------------------------------------------------------------------
\* The decoration contract (SpecDecor).

\* C1: the first Start after New hands the engine exactly the attributes of
\* the options of New, in the order the options were given, followed by the
\* attributes of the AddAttribute / AddAttributeIf calls in call order.
C1_AttributesInOrder ==
    \A k \in 1..Len(spans) :
        LET i == NthStart(hist, k)
            b == PeriodBegin(hist, i)
        IN  hist[b].op = "New" => spans[k].attrs = AskedAttrsIn(hist, b, i - 1)

\* Options and two add calls reached the engine, in order.
C1_Witness ==
    /\ Len(spans) >= 1
    /\ spans[1].attrs = << KeyValue("custom.key1", "STRING", "value1", 0),
                           KeyValue("custom.key2", "INT64", "", 42),
                           KeyValue("user_id", "STRING", "42", 0),
                           KeyValue("k2", "INT64", "", 5) >>

\* C2: after every Start the pending attributes and links of the Trace are
\* empty, and a span started after an earlier Start carries exactly the
\* attributes and links added since that earlier Start.
C2_StartClearsPending ==
    /\ (lastOp = "Start" /\ ~fault) => (t.attrs = <<>> /\ t.links = <<>>)
    /\ \A k \in 1..Len(spans) :
          LET i == NthStart(hist, k)
              b == PeriodBegin(hist, i)
          IN  hist[b].op = "Start" =>
                 /\ spans[k].attrs = AskedAttrsIn(hist, b + 1, i - 1)
                 /\ spans[k].links = AskedLinksIn(hist, b + 1, i - 1)

\* AddAttribute(A); Start; AddAttribute(B); Start: the spans carry A and B.
C2_Witness ==
    /\ Len(spans) = 2
    /\ spans[1].attrs = <<KeyValue("user_id", "STRING", "42", 0)>>
    /\ spans[2].attrs = <<KeyValue("a", "INT64", "", 1), KeyValue("b", "INT64", "", 2)>>
    /\ lastOp = "Start"

\* C3: decorations reach the engine only through Start: without a Start the
\* engine has no span, only a Start adds one, and no later call changes the
\* attributes, links or kind of a span that exists; a decoration call and an
\* End leave them as Start set them.
C3_OnlyStartCommits ==
    [][ /\ Len(spans') >= Len(spans)
        /\ \A k \in 1..Len(spans) :
              /\ spans'[k].attrs = spans[k].attrs
              /\ spans'[k].links = spans[k].links
              /\ spans'[k].kind = spans[k].kind
        /\ (Len(spans') # Len(spans)) => lastOp' = "Start"
        /\ (\A i \in 1..Len(hist') : hist'[i].op # "Start") => spans' = <<>>
      ]_vars

\* An attribute added after Start and followed by End: the ended span never
\* got it, and it is still pending.
C3_Witness ==
    /\ lastOp = "End"
    /\ t.span # 0
    /\ spans[t.span].ended
    /\ spans[t.span].attrs = <<>>
    /\ t.attrs = <<KeyValue("user_id", "STRING", "42", 0)>>

----------------------------------------------------------------------------
\* The lifecycle contract (Spec, SpecLink).

\* The position in h of the last call of New.
LastNew(h) == CHOOSE i \in 1..Len(h) : h[i].op = "New" /\ \A j \in (i + 1)..Len(h) : h[j].op # "New"

\* C4: GetParentID returns, in every state of the Trace, the span id of the
\* span in the context New was given ("" when there was none), whatever was
\* called on the Trace since.
C4_ParentIDFixed ==
    LET ctx == hist[LastNew(hist)].ctx
    IN  GetParentID(t) = (IF ~ctx.isNil /\ ctx.sc.traceID # 0 /\ ctx.sc.spanID # 0
                          THEN SpanIDString(ctx.sc.spanID) ELSE "")

\* New on a context without a span, then ExtractHTTPContext of an upstream
\* trace context, Start and End: the span is a child of the upstream span and
\* GetParentID still returns the empty string captured by New.
C4_Witness ==
    /\ lastOp = "End"
    /\ \E i \in 1..Len(hist) : hist[i].op = "ExtractHTTPContext"
    /\ t.span # 0
    /\ spans[t.span].parent.spanID = Upstream.spanID
    /\ spans[t.span].ended
    /\ GetParentID(t) = ""

\* C5 (as stated): when the context of a started Trace was injected into the
\* request header, and a Trace built afterwards on a fresh background context
\* has extracted from that header (by ExtractHTTPContext or by the
\* WithHTTPContext option) and was started, its GetParentID is the trace id or
\* the span id of the injected span.
C5_CrossBoundaryParent ==
    LET n == LastNew(hist)
        injected == \E i \in 1..(n - 1) : hist[i].op = "InjectHTTPContext"
        extracted == \/ \E i \in 1..Len(hist[n].opts) : hist[n].opts[i].o = "WithHTTPContext"
                     \/ \E i \in (n + 1)..Len(hist) :
                           /\ hist[i].op = "ExtractHTTPContext"
                           /\ \E j \in (i + 1)..Len(hist) : hist[j].op = "Start"
    IN  ( /\ n > 1
          /\ injected
          /\ IsValid(sent.sc)
          /\ \A i \in (n + 1)..Len(hist) : hist[i].op # "InjectHTTPContext"
          /\ hist[n].ctx = Background
          /\ extracted
          /\ lastOp = "Start"
          /\ ~fault )
        => GetParentID(t) \in {TraceIDString(sent.sc.traceID), SpanIDString(sent.sc.spanID)}

\* C8: End never fails: it leaves the Trace as it is, on a Trace without a
\* span handle it also leaves the engine as it is, and an End that follows an
\* End returns normally as well.
C8_EndNeverFails ==
    [][ lastOp' = "End" =>
          /\ ~fault'
          /\ t' = t
          /\ (t.span = 0 => spans' = spans)
          /\ Len(spans') = Len(spans)
      ]_vars

\* Two consecutive End calls on a started Trace, both returned.
C8_Witness ==
    /\ Len(hist) >= 3
    /\ hist[Len(hist)].op = "End"
    /\ hist[Len(hist) - 1].op = "End"
    /\ t.span # 0
    /\ spans[t.span].ends = 2
    /\ ~fault

\* The Trace holds a span handle whose span has ended / has not ended.
Ended == t.span # 0 /\ spans[t.span].ended
Live == t.span # 0 /\ ~spans[t.span].ended

\* C9 (as stated): Ended is terminal: once the span of the Trace has ended, no
\* operation on the Trace, Start included, gives it a live span again.
C9_EndedTerminal == [][ Ended => ~Live' ]_vars

\* C10: a span receives exactly the End calls made while it is the handle of
\* the Trace: a span whose handle was replaced by a second Start before any
\* End never receives one, whatever is called later.
C10_AbandonedNeverEnded ==
    \A k \in 1..Len(spans) :
        LET i == NthStart(hist, k)
            n == EndsIn(hist, i + 1, PeriodEnd(hist, k) - 1)
        IN  /\ spans[k].ends = n
            /\ spans[k].ended <=> n > 0

\* New, Start(a), Start(b), End: one end for the span of b, none for the span of a.
C10_Witness ==
    /\ Len(hist) = 4
    /\ hist[2].op = "Start"
    /\ hist[3].op = "Start"
    /\ hist[4].op = "End"
    /\ Len(spans) = 2
    /\ spans[1].ends = 0
    /\ ~spans[1].ended
    /\ spans[2].ends = 1

----------------------------------------------------------------------------
\* The propagation contract (SpecCarrier).

\* The extractions through a Trace, and the extraction functions.
MethodExtracts == {"ExtractHTTPContext", "ExtractGRPCContext"}
FunctionExtracts == {"ExtractNats", "ExtractKafka", "ExtractRabbitMQ", "ExtractGRPCContextFn"}

\* The context an extraction produced: the context of the Trace, or the
\* context the function returned.
Extracted == IF lastOp \in MethodExtracts THEN rx.out ELSE rx.ret

\* The keys of the trace context, in the forms the containers hold them.
TraceKeys == {"traceparent", "Traceparent", "tracestate", "Tracestate", "baggage", "Baggage"}

\* The container of the wire holds no trace key, or only trace keys whose
\* values are unusable (malformed text, or a RabbitMQ value that is no string).
NoTraceData(w) ==
    CASE w.kind \in {"http", "nats"} ->
            \A k \in DOMAIN w.h \cap TraceKeys :
                \A i \in 1..Len(w.h[k]) : w.h[k][i] \in Unusable
      [] w.kind = "kafka" ->
            \A i \in 1..Len(w.h) : w.h[i].Key \in TraceKeys => w.h[i].Value \in Unusable
      [] w.kind = "amqp" ->
            \A k \in DOMAIN w.h \cap TraceKeys : ~w.h[k].isStr \/ w.h[k].v \in Unusable
      [] w.kind = "grpc" ->
            \/ ~w.h.ok
            \/ \A k \in DOMAIN w.h.md \cap TraceKeys :
                  \A i \in 1..Len(w.h.md[k]) : w.h.md[k][i] \in Unusable

\* C6: round trip, for every transport: when a context with a valid span was
\* injected into empty headers, an extraction from those headers yields a
\* context whose span context has the trace id and the span id injected.
C6_RoundTrip ==
    (lastOp \in MethodExtracts \cup FunctionExtracts /\ sent.empty /\ IsValid(sent.sc)) =>
        /\ Extracted.sc.traceID = sent.sc.traceID
        /\ Extracted.sc.spanID = sent.sc.spanID

\* PropagateRabbitMQ of the upstream span into an empty table, ExtractRabbitMQ
\* into a background context: the context returned holds that span.
C6_Witness ==
    /\ lastOp = "ExtractRabbitMQ"
    /\ sent.empty
    /\ sent.sc = Upstream
    /\ rx.arg = Background
    /\ rx.ret.sc.traceID = Upstream.traceID
    /\ rx.ret.sc.spanID = Upstream.spanID

\* C7: extraction without trace data is the identity, for every transport:
\* from headers with no trace key, or with unusable values only, a function
\* returns the context it was given, a Trace keeps the context it has, and
\* nothing fails.
C7_ExtractIdentity ==
    NoTraceData(wire) =>
        /\ lastOp \in FunctionExtracts => (rx.ret = rx.arg /\ ~fault)
        /\ lastOp \in MethodExtracts => (rx.out = rx.in /\ ~fault)

\* ExtractRabbitMQ from a table whose traceparent is not a string, into a
\* context that holds a span and baggage: the same context comes back.
C7_Witness ==
    /\ lastOp = "ExtractRabbitMQ"
    /\ wire.kind = "amqp"
    /\ "traceparent" \in DOMAIN wire.h
    /\ ~wire.h["traceparent"].isStr
    /\ IsValid(rx.arg.sc)
    /\ rx.ret = rx.arg

----------------------------------------------------------------------------
\* C11 (as stated): on a Trace built by New on which Start was never called,
\* SetStatus, SetSuccess, RecordError with a non-nil error, RecordFailure, End
\* and the inject/extract methods return without a fault and leave the engine
\* without any span effect; GetTraceID, GetParentID and GetContext are
\* defined there as well.
NeverStarted == \A i \in 1..Len(hist) : hist[i].op # "Start"

C11_SafeWithoutSpan ==
    ( /\ NeverStarted
      /\ lastOp \in {"SetStatus", "SetSuccess", "RecordError", "RecordFailure", "End",
                     "InjectHTTPContext", "ExtractHTTPContext"} )
    => /\ ~fault
       /\ spans = <<>>
       /\ GetTraceID(t, spans) = ""

\* C12 (as stated): on a Trace built by New, a selector method
\* (t.SpanKind().Server() and the like) sets the pending kind and returns the
\* Trace itself, never nil, so that the chain t.SpanKind().Server().Start(name)
\* does not fault and starts a span of that kind on t.
C12_SelectorReturnsOwner ==
    LET n == Len(hist)
    IN  /\ (hist[1].op = "New" /\ lastOp = "SpanKind")
            => /\ ~fault
               /\ t.spanKind.option = WithSpanKind(hist[n].key)
        /\ (hist[1].op = "New" /\ lastOp = "Start" /\ n >= 3 /\ hist[n - 1].op = "SpanKind")
            => /\ ~fault
               /\ t.span # 0
               /\ spans[t.span].kind = hist[n - 1].key

\* The kind asked for by the last kind call before position i of the log,
\* "internal" when there is none.
KindCalls == {"SetKind", "SpanKind"}

AskedKind(h, i) ==
    LET ks == {j \in 1..(i - 1) : h[j].op \in KindCalls}
    IN  IF ks = {} THEN "internal"
        ELSE h[CHOOSE j \in ks : \A l \in ks : l <= j].key

\* C13 (as stated): a Start on a Trace built by New or by
\* NewWithoutPropagation returns with a span whose kind is internal when no
\* kind method was called before it, and else the kind of the last kind call.
C13_KindOfSpan ==
    lastOp = "Start"
    => /\ ~fault
       /\ t.span # 0
       /\ spans[t.span].kind = AskedKind(hist, Len(hist))

\* C14 (as stated): NewWithoutPropagation(ctx, name) followed by Start and End
\* completes normally, and the span is independent of ctx: it has no parent,
\* GetParentID is empty and its trace id is not the one ctx carries.
C14_FreshTrace ==
    ( /\ hist[1].op = "NewWithoutPropagation"
      /\ Len(hist) >= 2
      /\ hist[2].op = "Start"
      /\ \A i \in 3..Len(hist) : hist[i].op = "End" )
    => /\ ~fault
       /\ t.span # 0
       /\ ~IsValid(spans[t.span].parent)
       /\ GetParentID(t) = ""
       /\ (IsValid(hist[1].ctx.sc) => spans[t.span].sc.traceID # hist[1].ctx.sc.traceID)
       /\ (Len(hist) >= 3 => spans[t.span].ended)

\* The calls that replace the context of the Trace by an extracted one.
ExtractCalls == {"ExtractHTTPContext", "ExtractGRPCContext"}

\* C15: default propagation.  For a Trace built by New from a context that
\* carries a valid span P, GetParentID is P's span id and the span of its first
\* Start (nothing extracted before it) is a child of P in P's trace; for a
\* context without a valid span, or nil, GetParentID is empty, the Trace works
\* on a background context and that span is a root span.
C15_DefaultPropagation ==
    LET c == hist[1].ctx
        P == SpanContextFromContext(c)
        first == NthStart(hist, 1)
    IN  /\ hist[1].op = "New"
        /\ ~t.ctx.isNil
        /\ GetParentID(t) = (IF IsValid(P) THEN SpanIDString(P.spanID) ELSE "")
        /\ (spans = <<>> /\ \A i \in 1..Len(hist) : hist[i].op \notin ExtractCalls)
              => t.ctx = (IF c.isNil THEN Background ELSE c)
        /\ ( /\ Len(spans) >= 1
             /\ \A i \in 1..first : hist[i].op \notin ExtractCalls )
              => IF IsValid(P)
                 THEN /\ spans[1].parent = P
                      /\ spans[1].sc.traceID = P.traceID
                      /\ spans[1].sc.spanID # P.spanID
                 ELSE /\ ~IsValid(spans[1].parent)
                      /\ IsValid(spans[1].sc)

\* New from a context carrying the span Upstream, then Start: the span is a
\* child of Upstream and GetParentID names it.
C15_Witness ==
    /\ hist[1].ctx = Ctx(Upstream, 0)
    /\ lastOp = "Start"
    /\ Len(hist) = 2
    /\ spans[1].parent = Upstream
    /\ spans[1].sc.traceID = Upstream.traceID
    /\ GetParentID(t) = SpanIDString(Upstream.spanID)

\* New from a nil context, then Start: a root span.
C15_WitnessNil ==
    /\ hist[1].ctx.isNil
    /\ lastOp = "Start"
    /\ Len(hist) = 2
    /\ ~IsValid(spans[1].parent)
    /\ GetParentID(t) = ""

\* The log of the example: New(ctx, "svc"), AddAttribute(user_id = "42"),
\* Start("op").
ExampleLog ==
    /\ Len(hist) = 3
    /\ hist[1].op = "New" /\ hist[1].opts = <<>>
    /\ hist[2].op = "AddAttribute" /\ hist[2].attrs = <<AddString("user_id", "42")>>
    /\ hist[3].op = "Start" /\ hist[3].key = "op"

\* C16: a Start that returns has asked the engine for exactly one span, named
\* "<service>.<name>" and carrying exactly the attributes pending on the Trace;
\* the spans there were are left as they are.  After New(ctx, "svc"),
\* AddAttribute(user_id = "42"), Start("op") there is one span, named "svc.op",
\* whose only attribute is user_id = "42".
C16_StartAsksOneSpan ==
    [][ (lastOp' = "Start" /\ ~fault')
          => /\ Len(spans') = Len(spans) + 1
             /\ SubSeq(spans', 1, Len(spans)) = spans
             /\ spans'[Len(spans')].name = t.service \o "." \o hist'[Len(hist')].key
             /\ spans'[Len(spans')].attrs = t.attrs
             /\ t'.span = Len(spans')
             /\ (ExampleLog' => /\ Len(spans') = 1
                                /\ spans'[1].name = "svc.op"
                                /\ spans'[1].attrs = <<KeyValue("user_id", "STRING", "42", 0)>>)
      ]_vars

\* The example has run.
C16_Witness ==
    /\ ExampleLog
    /\ Len(spans) = 1
    /\ spans[1].name = "svc.op"
    /\ spans[1].attrs = <<KeyValue("user_id", "STRING", "42", 0)>>
    /\ ~fault

\* C17: AddAttributeIf with a false condition leaves the whole Trace and the
\* engine unchanged; with a true condition and a supported value it appends
\* exactly one attribute, with that key and value, at the end of the pending
\* attributes and changes nothing else.
C17_AddAttributeIfFrame ==
    [][ lastOp' = "AddAttributeIf"
          => LET e == hist'[Len(hist')]
                 n == Len(t.attrs)
             IN  /\ ~fault'
                 /\ spans' = spans
                 /\ (~e.cond => t' = t)
                 /\ (e.cond /\ Supported(e.value))
                      => /\ Len(t'.attrs) = n + 1
                         /\ SubSeq(t'.attrs, 1, n) = t.attrs
                         /\ t'.attrs[n + 1].key = e.key
                         /\ t'.attrs[n + 1].str = e.value.str
                         /\ t'.attrs[n + 1].num = e.value.num
                         /\ [t' EXCEPT !.attrs = t.attrs] = t
      ]_vars

\* A false call that added nothing, then a true call that added k2 = 5:
\* exactly one pending attribute.
C17_Witness ==
    /\ Len(hist) = 3
    /\ hist[2].op = "AddAttributeIf" /\ ~hist[2].cond
    /\ hist[3].op = "AddAttributeIf" /\ hist[3].cond /\ hist[3].key = "k2"
    /\ hist[1].opts = <<>>
    /\ t.attrs = <<KeyValue("k2", "INT64", "", 5)>>

\* The runtime types of the string, integer, float and bool families.
IntegerFamily == {"int", "int8", "int16", "int32", "int64",
                  "uint", "uint8", "uint16", "uint32", "uint64"}
FloatFamily == {"float32", "float64"}
NarrowIntegers == {"int8", "int16", "uint8", "uint16"}

\* C18 (as stated): with a true condition AddAttributeIf appends an attribute
\* if and only if the value is a string, an integer of any width (8 and 16
\* bits included), a float or a bool; for every other type the Trace is left
\* unchanged, without a fault.
C18_AnyWidth ==
    [][ (lastOp' = "AddAttributeIf" /\ hist'[Len(hist')].cond)
          => LET ty == hist'[Len(hist')].value.type
             IN  /\ ~fault'
                 /\ IF ty \in {"string", "bool"} \cup IntegerFamily \cup FloatFamily
                    THEN Len(t'.attrs) = Len(t.attrs) + 1
                    ELSE t' = t
      ]_vars

\* C18 (amended): with a true condition AddAttributeIf appends an attribute if
\* and only if the value is a string, an int, int32, int64, uint, uint32 or
\* uint64, a float or a bool; for every other type, the 8 and 16 bit integers
\* among them, the Trace is left unchanged, without a fault.
C18_SupportedTypes ==
    [][ (lastOp' = "AddAttributeIf" /\ hist'[Len(hist')].cond)
          => LET ty == hist'[Len(hist')].value.type
             IN  /\ ~fault'
                 /\ spans' = spans
                 /\ IF ty \in {"string", "bool"} \cup (IntegerFamily \ NarrowIntegers)
                               \cup FloatFamily
                    THEN /\ Len(t'.attrs) = Len(t.attrs) + 1
                         /\ SubSeq(t'.attrs, 1, Len(t.attrs)) = t.attrs
                    ELSE t' = t
      ]_vars

\* An int8 value was dropped and a uint32 value appended after it.
C18_Witness ==
    /\ Len(hist) = 3
    /\ hist[2].op = "AddAttributeIf" /\ hist[2].cond /\ hist[2].value.type = "int8"
    /\ hist[3].op = "AddAttributeIf" /\ hist[3].cond /\ hist[3].value.type = "uint32"
    /\ t.attrs = <<KeyValue("k", "INT64", "", 9)>>
    /\ ~fault

\* Start was called on the current Trace (after the last New of the log).
StartedSinceNew == \E i \in (LastNew(hist) + 1)..Len(hist) : hist[i].op = "Start"

\* C19: GetTraceID is the empty string as long as the Trace has no started
\* span, whatever its context carries, and after a Start that returned it is
\* the 32-digit trace id of the span that Start produced, also once that
\* span has ended.
C19_TraceIDOfStartedSpan ==
    /\ ~StartedSinceNew => GetTraceID(t, spans) = ""
    /\ (StartedSinceNew /\ ~fault)
         => LET sp == spans[Len(spans)]
            IN  /\ IsValid(sp.sc)
                /\ GetTraceID(t, spans) = TraceIDString(sp.sc.traceID)
                /\ GetTraceID(t, spans) # ""
                /\ (IsValid(sp.parent) => GetTraceID(t, spans) = TraceIDString(sp.parent.traceID))

\* A Trace built on a context carrying the span Upstream, started and ended:
\* GetTraceID is still the upstream trace id.
C19_Witness ==
    /\ hist[1].ctx = Ctx(Upstream, 0)
    /\ lastOp = "End"
    /\ t.span # 0
    /\ spans[t.span].ended
    /\ GetTraceID(t, spans) = TraceIDString(Upstream.traceID)

\* Before Start, on a context that carries a span: the empty string.
C19_WitnessBefore ==
    /\ hist[1].ctx = Ctx(Upstream, 0)
    /\ ~StartedSinceNew
    /\ lastOp = "ExtractHTTPContext"
    /\ GetTraceID(t, spans) = ""

\* The exception event the engine keeps for a recorded error.
ExceptionEvent(msg) == [name |-> "exception", message |-> msg]

\* C20 (as stated): RecordError(nil) makes no engine call in any state;
\* RecordError(err) with a non-nil err on a Trace with a live span records err
\* on that span exactly once and leaves the span with status Error and err's
\* message as description.
C20_RecordErrorSetsError ==
    [][ lastOp' = "RecordError"
          => LET e == hist'[Len(hist')]
             IN  /\ e.value.type = "nil" => (~fault' /\ spans' = spans /\ t' = t)
                 /\ (e.value.type # "nil" /\ t.span # 0 /\ ~spans[t.span].ended)
                      => /\ ~fault'
                         /\ spans'[t.span].events
                              = Append(spans[t.span].events, ExceptionEvent(e.value.str))
                         /\ spans'[t.span].status
                              = [code |-> "Error", description |-> e.value.str]
      ]_vars

\* C20 (amended): RecordError(nil) makes no engine call in any state;
\* RecordError(err) with a non-nil err on a Trace with a live span records err
\* on that span exactly once and leaves the span with status Error and err's
\* message as description, unless the status of the span was Ok already, in
\* which case the error is recorded and the status stays Ok.  Nothing else
\* changes.
C20_RecordError ==
    [][ lastOp' = "RecordError"
          => LET e == hist'[Len(hist')]
             IN  /\ e.value.type = "nil" => (~fault' /\ spans' = spans /\ t' = t)
                 /\ (e.value.type # "nil" /\ t.span # 0 /\ ~spans[t.span].ended)
                      => /\ ~fault'
                         /\ t' = t
                         /\ spans'[t.span].events
                              = Append(spans[t.span].events, ExceptionEvent(e.value.str))
                         /\ spans'[t.span].status
                              = (IF spans[t.span].status.code = "Ok"
                                 THEN spans[t.span].status
                                 ELSE [code |-> "Error", description |-> e.value.str])
                         /\ [spans' EXCEPT ![t.span] = spans[t.span]] = spans
      ]_vars

\* RecordError(errors.New("boom")) on a live span without status: one
\* exception event and status (Error, "boom").
C20_Witness ==
    /\ lastOp = "RecordError"
    /\ hist[Len(hist)].value = DynErr(ErrorsNew("boom"))
    /\ t.span # 0
    /\ ~spans[t.span].ended
    /\ spans[t.span].events = <<ExceptionEvent("boom")>>
    /\ spans[t.span].status = [code |-> "Error", description |-> "boom"]

\* The same call after SetSuccess: the event is there, the status is Ok.
C20_WitnessAfterOk ==
    /\ lastOp = "RecordError"
    /\ hist[Len(hist)].value = DynErr(ErrorsNew("boom"))
    /\ hist[Len(hist) - 1].op = "SetSuccess"
    /\ spans[t.span].events = <<ExceptionEvent("boom")>>
    /\ spans[t.span].status = [code |-> "Ok", description |-> ""]

\* C21 (as stated): RecordFailure(err, message) on a Trace with a live span
\* records err on the span exactly once when it is non-nil, not at all when it
\* is nil, and leaves the span with status (Error, message) in both cases.
C21_FailureSetsError ==
    [][ (lastOp' = "RecordFailure" /\ t.span # 0 /\ ~spans[t.span].ended)
          => LET e == hist'[Len(hist')]
             IN  /\ ~fault'
                 /\ spans'[t.span].events
                      = (IF e.value.type = "nil" THEN spans[t.span].events
                         ELSE Append(spans[t.span].events, ExceptionEvent(e.value.str)))
                 /\ spans'[t.span].status = [code |-> "Error", description |-> e.key]
      ]_vars

\* C21 (amended): RecordFailure(err, message) on a Trace with a live span
\* records err on the span exactly once when it is non-nil, not at all when it
\* is nil, and leaves the span with status (Error, message) in both cases,
\* unless the status of the span was Ok already, in which case the status
\* stays Ok.  The message, not err's text, is the final description: the
\* status of RecordError is set first and SetStatus(Error, message) after it.
C21_RecordFailure ==
    [][ (lastOp' = "RecordFailure" /\ t.span # 0 /\ ~spans[t.span].ended)
          => LET e == hist'[Len(hist')]
             IN  /\ ~fault'
                 /\ t' = t
                 /\ spans'[t.span].events
                      = (IF e.value.type = "nil" THEN spans[t.span].events
                         ELSE Append(spans[t.span].events, ExceptionEvent(e.value.str)))
                 /\ spans'[t.span].status
                      = (IF spans[t.span].status.code = "Ok"
                         THEN spans[t.span].status
                         ELSE [code |-> "Error", description |-> e.key])
                 /\ [spans' EXCEPT ![t.span] = spans[t.span]] = spans
      ]_vars

\* RecordFailure(errors.New("boom"), "failed") on a live span without status:
\* one exception event for boom, status (Error, "failed").
C21_Witness ==
    /\ lastOp = "RecordFailure"
    /\ hist[Len(hist)].value = DynErr(ErrorsNew("boom"))
    /\ t.span # 0
    /\ ~spans[t.span].ended
    /\ spans[t.span].events = <<ExceptionEvent("boom")>>
    /\ spans[t.span].status = [code |-> "Error", description |-> "failed"]

\* The positions of the headers of key k in the Kafka header list hs.
KafkaPositions(hs, k) == {i \in 1..Len(hs) : hs[i].Key = k}

\* C22 (as stated): for every Kafka header list, lists that hold the key more
\* than once included, after Set(k, v) the list holds exactly one header with
\* key k and Get(k) returns v.
C22_KafkaSetReplaces ==
    [][ (lastOp' = "Set" /\ wire.kind = "kafka")
          => LET e == hist'[Len(hist')]
             IN  /\ Cardinality(KafkaPositions(wire'.h, e.key)) = 1
                 /\ KafkaGet(wire'.h, e.key) = <<e.value.num>>
      ]_vars

\* The keys of the headers are pairwise distinct (always so for a table).
DistinctKeys(w) ==
    w.kind = "kafka" => \A i, j \in 1..Len(w.h) : w.h[i].Key = w.h[j].Key => i = j

\* The keys the call e sets, and the value it sets key k to.
KeysSet(e) ==
    IF e.op = "Set" THEN {e.key}
    ELSE (IF IsValid(e.ctx.sc) THEN {"traceparent"} ELSE {})
         \cup (IF IsValid(e.ctx.sc) /\ e.ctx.sc.ts # 0 THEN {"tracestate"} ELSE {})
         \cup (IF e.ctx.bag # 0 THEN {"baggage"} ELSE {})

ValueSet(e, k) ==
    IF e.op = "Set" THEN <<e.value.num>>
    ELSE CASE k = "traceparent" -> <<0, e.ctx.sc.traceID, e.ctx.sc.spanID, e.ctx.sc.flags>>
           [] k = "tracestate" -> <<e.ctx.sc.ts>>
           [] k = "baggage" -> <<e.ctx.bag>>

\* The headers of w whose key is not in K: a list for Kafka, a table for
\* RabbitMQ.
Others(w, K) ==
    IF w.kind = "kafka"
    THEN LET Keep(h) == h.Key \notin K IN SelectSeq(w.h, Keep)
    ELSE [k \in (DOMAIN w.h) \ K |-> w.h[k]]

\* The value Get returns for key k of w.
HeaderValue(w, k) == CarrierGet(Carrier(w.kind, w.h), k)

\* C23: no duplicate-key buildup.  A Set, PropagateKafka or PropagateRabbitMQ
\* call on a Kafka header list or RabbitMQ table with pairwise distinct keys
\* leaves the keys pairwise distinct, leaves every header of a key it does not
\* set in place, with its value and in its relative order, and leaves each key
\* it sets with the value set; so this holds after any number of such calls.
C23_NoDuplicateBuildup ==
    [][ (lastOp' \in {"Set", "PropagateKafka", "PropagateRabbitMQ"} /\ DistinctKeys(wire))
          => LET e == hist'[Len(hist')]
             IN  /\ DistinctKeys(wire')
                 /\ Others(wire', KeysSet(e)) = Others(wire, KeysSet(e))
                 /\ \A k \in KeysSet(e) : HeaderValue(wire', k) = ValueSet(e, k)
                 /\ wire.kind = "kafka"
                      => Len(wire'.h) = Len(Others(wire, KeysSet(e))) + Cardinality(KeysSet(e))
      ]_vars

\* Two PropagateKafka calls on a list of three distinct keys that held an old
\* traceparent: still one traceparent, now the propagated one, next to one
\* baggage header and the two other headers in their order.
C23_Witness ==
    /\ wire.kind = "kafka"
    /\ Len(hist) = 3
    /\ hist[2].op = "PropagateKafka" /\ hist[3].op = "PropagateKafka"
    /\ hist[3].ctx = Ctx(Upstream, 3)
    /\ KafkaKeys(wire.h) = <<"x-user", "x-tenant", "traceparent", "baggage">>
    /\ KafkaGet(wire.h, "traceparent") = Traceparent(Upstream)
    /\ KafkaGet(wire.h, "x-user") = <<1>>

\* The trace keys an injection of the context ctx writes.
InjectedKeys(ctx) ==
    (IF IsValid(ctx.sc) THEN {"traceparent"} ELSE {})
    \cup (IF IsValid(ctx.sc) /\ ctx.sc.ts # 0 THEN {"tracestate"} ELSE {})
    \cup (IF ctx.bag # 0 THEN {"baggage"} ELSE {})

\* C24: the gRPC adapter.  The outgoing metadata of the context
\* InjectGRPCContext returns holds exactly the keys of the caller's outgoing
\* metadata and the trace keys of the Trace's context: each caller key that is
\* not a trace key reduced to its first value, traceparent naming the span of
\* the Trace's context.  ExtractGRPCContext reads the first value of the
\* incoming traceparent only: the Trace continues the span that value names,
\* and keeps the span context it has when that value is unusable, whatever
\* further values the key holds.
C24_GRPCFirstValue ==
    [][ LET e == hist'[Len(hist')]
        IN  /\ lastOp' = "InjectGRPCContext"
                 => LET old == IF e.ctx.outMD.ok THEN e.ctx.outMD.md ELSE EmptyMap
                        new == wire'.h.md
                        TK == InjectedKeys(t.ctx)
                    IN  /\ wire'.h.ok
                        /\ DOMAIN new = (DOMAIN old) \cup TK
                        /\ \A k \in (DOMAIN old) \ TK :
                              new[k] = (IF Len(old[k]) > 0 THEN <<old[k][1]>> ELSE old[k])
                        /\ IsValid(t.ctx.sc)
                              => new["traceparent"]
                                   = << <<0, t.ctx.sc.traceID, t.ctx.sc.spanID, t.ctx.sc.flags>> >>
            /\ (lastOp' = "ExtractGRPCContext" /\ e.ctx.inMD.ok)
                 => LET md == e.ctx.inMD.md
                        first == IF "traceparent" \in DOMAIN md /\ Len(md["traceparent"]) > 0
                                 THEN md["traceparent"][1] ELSE <<>>
                    IN  IF first \in {Traceparent(Upstream), Traceparent(Upstream2)}
                        THEN /\ t'.ctx.sc.traceID = first[2]
                             /\ t'.ctx.sc.spanID = first[3]
                             /\ t'.ctx.sc.remote
                        ELSE t'.ctx.sc = t.ctx.sc
      ]_vars

\* An injection by a started Trace into outgoing metadata that held two
\* values for x-user: x-user is reduced to the first, traceparent names the
\* span of the Trace.
C24_Witness ==
    /\ lastOp = "InjectGRPCContext"
    /\ hist[Len(hist)].ctx.outMD.md = One("x-user", << <<1>>, <<2>> >>)
    /\ t.span # 0
    /\ wire.h.md["x-user"] = << <<1>> >>
    /\ wire.h.md["traceparent"] = <<Traceparent(spans[t.span].sc)>>

\* An extraction from incoming metadata whose traceparent holds two spans:
\* the Trace continues the first.
C24_WitnessExtract ==
    /\ lastOp = "ExtractGRPCContext"
    /\ hist[Len(hist)].ctx.inMD.md["traceparent"]
         = <<Traceparent(Upstream), Traceparent(Upstream2)>>
    /\ t.ctx.sc.spanID = Upstream.spanID

\* C25 (as stated): Trace.ExtractGRPCContext(ctx) returns ctx as it was given
\* and leaves the context of the Trace unchanged, both when ctx has no
\* incoming metadata and when the incoming metadata holds no trace context.
C25_ExtractReturnsOriginal ==
    ( /\ lastOp = "ExtractGRPCContext"
      /\ \/ ~rx.arg.inMD.ok
         \/ DOMAIN rx.arg.inMD.md \cap TraceKeys = {} )
    => /\ rx.ret = rx.arg
       /\ rx.out = rx.in

\* The traceparent values in the outgoing metadata of the context ctx.
SentTraceparent(ctx) ==
    IF ctx.outMD.ok /\ "traceparent" \in DOMAIN ctx.outMD.md
    THEN ctx.outMD.md["traceparent"] ELSE <<>>

\* C26 (as stated): for every outgoing call the interceptor invokes the
\* invoker exactly once, with the call's context whose outgoing metadata
\* carries the trace context that is current in that call's own context; two
\* calls made under different spans carry different trace contexts.
C26_InterceptorPerCall ==
    [][ lastOp' = "UnaryClientInterceptor"
          => LET c == hist'[Len(hist')].ctx
                 n == Len(invoked')
             IN  /\ n = Len(invoked) + 1
                 /\ SubSeq(invoked', 1, n - 1) = invoked
                 /\ invoked'[n].sc = c.sc
                 /\ SentTraceparent(invoked'[n])
                      = (IF IsValid(c.sc) THEN <<Traceparent(c.sc)>> ELSE <<>>)
                 /\ \A i \in 1..(n - 1) :
                       (IsValid(c.sc) /\ IsValid(invoked'[i].sc) /\ invoked'[i].sc # c.sc)
                          => SentTraceparent(invoked'[i]) # SentTraceparent(invoked'[n])
      ]_vars

\* The span context an extraction recovers from what an injection of sc wrote.
Recovered(sc) == SpanContextOf(sc.traceID, sc.spanID, sc.flags % 2, sc.ts, TRUE)

\* C27 (as stated): the two NATS paths agree on the header key: the trace
\* context stored by the header type's own Set is recovered by ExtractNats,
\* and the one written by PropagateNats is found by the header type's own Get.
C27_NatsPathsAgree ==
    [][ /\ (lastOp = "NATSHeaderSet" /\ lastOp' = "ExtractNats" /\ IsValid(sent.sc))
            => SpanContextFromContext(rx'.ret) = Recovered(sent.sc)
        /\ (lastOp = "PropagateNats" /\ lastOp' = "NATSHeaderGet" /\ IsValid(sent.sc))
            => SpanContextFromContext(rx'.ret) = Recovered(sent.sc)
      ]_vars

\* The attributes and the links a goroutine's calls add, in call order, to
\* its own Trace (own TRUE) or to the shared one (own FALSE).
RECURSIVE AddedAttrs(_, _)
AddedAttrs(ops, own) ==
    IF ops = <<>> THEN <<>>
    ELSE (IF Head(ops).op = "AddAttribute" /\ Head(ops).own = own
          THEN OtelAttrs(Head(ops).as) ELSE <<>>) \o AddedAttrs(Tail(ops), own)

RECURSIVE AddedLinks(_, _)
AddedLinks(ops, own) ==
    IF ops = <<>> THEN <<>>
    ELSE (IF Head(ops).op = "AddLink" /\ Head(ops).own = own
          THEN <<Head(ops).link>> ELSE <<>>) \o AddedLinks(Tail(ops), own)

\* C28: a Trace is not safe for concurrent decoration.  When each goroutine
\* builds its own Trace from the shared context, every interleaving leaves
\* the span of each Trace with exactly that goroutine's own additions, in
\* order, whatever the other goroutine does; the pending list of the Trace
\* the goroutines share can lose an addition (C28_Witness).
C28_OwnTraceIsolated ==
    \A i \in DOMAIN procs :
        /\ procs[i].pc = "start"
              => /\ procs[i].tr.attrs = AddedAttrs(procs[i].adds, TRUE)
                 /\ procs[i].tr.links = AddedLinks(procs[i].adds, TRUE)
        /\ procs[i].pc = "done"
              => /\ spans[procs[i].span].attrs = AddedAttrs(procs[i].adds, TRUE)
                 /\ spans[procs[i].span].links = AddedLinks(procs[i].adds, TRUE)

\* Both goroutines have finished, each has added one attribute (link) to the
\* shared Trace, the pending list of the shared Trace holds only one of the
\* two, and each goroutine's own span holds its own additions.
C28_Witness ==
    /\ Len(procs) = 2
    /\ \A i \in 1..2 : procs[i].pc = "done"
    /\ \A i \in 1..2 : Len(AddedAttrs(procs[i].adds, FALSE)) + Len(AddedLinks(procs[i].adds, FALSE)) = 1
    /\ Len(t.attrs) + Len(t.links) = 1
    /\ \A i \in 1..2 : Len(spans[procs[i].span].attrs) + Len(spans[procs[i].span].links) > 0

\* Both additions to the shared Trace are kept when the two calls do not
\* overlap.
C28_WitnessKept ==
    /\ Len(procs) = 2
    /\ \A i \in 1..2 : procs[i].pc = "done"
    /\ Len(t.attrs) + Len(t.links) = 2

\* The calls of a kind method at positions a..b of h.
KindCallsIn(h, a, b) == {j \in a..b : h[j].op \in KindCalls}

\* C29: the pending kind is the one decoration Start does not reset: a span
\* started after an earlier Start, with a kind method called before that
\* earlier Start and none since, has the kind of the earlier span and not
\* internal, while its attributes and links are only those added since the
\* earlier Start.
C29_KindSurvivesStart ==
    \A k \in 2..Len(spans) :
        LET i == NthStart(hist, k)
            b == NthStart(hist, k - 1)
        IN  (KindCallsIn(hist, 1, b - 1) # {} /\ KindCallsIn(hist, b + 1, i - 1) = {})
               => /\ spans[k].kind = AskedKind(hist, b)
                  /\ spans[k].kind = spans[k - 1].kind
                  /\ spans[k].kind # "internal"
                  /\ spans[k].attrs = AskedAttrsIn(hist, b + 1, i - 1)
                  /\ spans[k].links = AskedLinksIn(hist, b + 1, i - 1)

\* Server(); AddAttribute(A); Start; Start: both spans are server spans and
\* only the first carries A.
C29_Witness ==
    /\ Len(spans) = 2
    /\ Len(hist) = 5
    /\ hist[2].op = "SetKind" /\ hist[2].key = "server"
    /\ hist[3].op = "AddAttribute"
    /\ hist[4].op = "Start" /\ hist[5].op = "Start"
    /\ spans[1].kind = "server" /\ spans[2].kind = "server"
    /\ spans[1].attrs # <<>> /\ spans[2].attrs = <<>>

\* Producer(); AddLink(L); Start; Start: only the first span carries L.
C29_WitnessLink ==
    /\ Len(spans) = 2
    /\ hist[2].op = "SetKind" /\ hist[2].key = "producer"
    /\ spans[1].kind = "producer" /\ spans[2].kind = "producer"
    /\ spans[1].links # <<>> /\ spans[2].links = <<>>

\* C30 (as stated): AddAttributeIf(true, k, v) with v of type uint, uint32 or
\* uint64 appends an Int64 attribute whose value is numerically equal to v,
\* for every value of the type, those above the largest int64 included.
C30_UnsignedKeepsValue ==
    [][ (lastOp' = "AddAttributeIf" /\ hist'[Len(hist')].cond
           /\ hist'[Len(hist')].value.type \in {"uint", "uint32", "uint64"})
          => t'.attrs = Append(t.attrs, KeyValue(hist'[Len(hist')].key, "INT64", "",
                                                 hist'[Len(hist')].value.num))
      ]_vars

============================================================================
